---- MODULE Spec2Model ----
(***************************************************************************)
(* Behaviour-tree tick engine of GreenPix/behaviour-tree.                  *)
(*                                                                         *)
(* A factory tree (tree/factory.rs) is instanciated into the recursive     *)
(* runtime (tree/non_optimized.rs) and flattened into the array-backed     *)
(* runtime (tree/mod.rs).  A tick visits the root of every instance; the   *)
(* leaves return the results the context makes them return in that tick.   *)
(***************************************************************************)
EXTENDS Integers, Sequences, FiniteSets, TLC

\* ------------------------------------------------------------------ bounds
\* Largest number of nodes of a generated factory tree.
MaxNodes == 3
\* Largest number of leaves of a selector / inverted-sequence pair.
MaxDualLeaves == 3

\* ------------------------------------------------------------ basic values
\* tree/mod.rs: enum VisitResult
VisitResult == {"Success", "Failure", "Running"}

\* Option<usize>: None is the empty tuple, Some(n) the one-element tuple.
None == <<>>

Some(n) == <<n>>

\* Option::unwrap_or
unwrap_or(o, d) == IF o = None THEN d ELSE o[1]

\* ----------------------------------------------------------- factory tree
\* tree/factory.rs: enum NodeFactory.  A leaf factory is named by the label
\* of the closure it holds; "always_running" is standard/fake_nodes.rs,
\* "check_condition" is standard/conditions.rs, a "user" leaf is any leaf of
\* the registry whose result depends on the context.
LeafFactory(l) == [kind |-> "Leaf", factory |-> "user", leaf |-> l, children |-> <<>>]

ConditionFactory(l) == [kind |-> "Leaf", factory |-> "check_condition", leaf |-> l, children |-> <<>>]

AlwaysRunningFactory == [kind |-> "Leaf", factory |-> "always_running", leaf |-> 0, children |-> <<>>]

\* NodeFactory::new_sequence
new_sequence(cs) == [kind |-> "Sequence", factory |-> "none", leaf |-> 0, children |-> cs]

\* NodeFactory::new_selector
new_selector(cs) == [kind |-> "Selector", factory |-> "none", leaf |-> 0, children |-> cs]

\* NodeFactory::new_priority
new_priority(cs) == [kind |-> "Priority", factory |-> "none", leaf |-> 0, children |-> cs]

\* NodeFactory::new_inverter
new_inverter(c) == [kind |-> "Inverter", factory |-> "none", leaf |-> 0, children |-> <<c>>]

\* NodeFactory::new_subtree: a reference by name to another tree.
new_subtree(name) == [kind |-> "Subtree", factory |-> name, leaf |-> 0, children |-> <<>>]

CompositeKinds == {"Sequence", "Selector", "Priority"}

NewComposite(k, cs) ==
    CASE k = "Sequence" -> new_sequence(cs)
      [] k = "Selector" -> new_selector(cs)
      [] k = "Priority" -> new_priority(cs)

\* Number of nodes of a factory tree.
RECURSIVE TreeSize(_)
TreeSize(t) ==
    LET RECURSIVE Sum(_)
        Sum(i) == IF i > Len(t.children) THEN 0 ELSE TreeSize(t.children[i]) + Sum(i + 1)
    IN 1 + Sum(1)

\* The factory trees of exactly n nodes whose root has pre-order position id;
\* a user leaf is labelled by its pre-order position, so that the leaves of
\* one tree are distinct closures.
RECURSIVE TreesAt(_, _), ForestsAt(_, _)
TreesAt(n, id) ==
    IF n = 1
    THEN {LeafFactory(id)} \cup {NewComposite(k, <<>>) : k \in CompositeKinds}
    ELSE {new_inverter(c) : c \in TreesAt(n - 1, id + 1)}
         \cup {NewComposite(k, f) : k \in CompositeKinds, f \in ForestsAt(n - 1, id + 1)}

ForestsAt(m, id) ==
    IF m = 0
    THEN {<<>>}
    ELSE UNION {{<<t>> \o f : t \in TreesAt(j, id), f \in ForestsAt(m - j, id + j)} : j \in 1..m}

GeneratedTrees == UNION {TreesAt(n, 1) : n \in 1..MaxNodes}

\* The trees of the scenarios that use always_running:
\*   sequence { a, always_running, b }      selector { always_running, x }
\*   priority { inverter { always_running }, x }   inverter { always_running }
ScenarioTrees ==
    { new_sequence(<<LeafFactory(2), AlwaysRunningFactory, LeafFactory(4)>>),
      new_selector(<<AlwaysRunningFactory, LeafFactory(3)>>),
      new_priority(<<new_inverter(AlwaysRunningFactory), LeafFactory(4)>>),
      new_inverter(AlwaysRunningFactory) }

\* Trees in which a composite with memory is not reached in every tick:
\*   priority { a, sequence { b, c } }      selector { a, selector { b, c } }
\*   sequence { a, inverter { sequence { b, c } } }
NestedTrees ==
    { new_priority(<<LeafFactory(2), new_sequence(<<LeafFactory(4), LeafFactory(5)>>)>>),
      new_selector(<<LeafFactory(2), new_selector(<<LeafFactory(4), LeafFactory(5)>>)>>),
      new_sequence(<<LeafFactory(2),
                     new_inverter(new_sequence(<<LeafFactory(5), LeafFactory(6)>>))>>) }

\* selector { l1, ..., lk } over check_condition leaves, which return only
\* Success or Failure.
SelectorOver(k) == new_selector([i \in 1..k |-> ConditionFactory(i)])

\* inverter { sequence { inverter { l1 }, ..., inverter { lk } } }
InvertedSequenceOver(k) ==
    new_inverter(new_sequence([i \in 1..k |-> new_inverter(ConditionFactory(i))]))

\* A source text defines one or more trees; parse returns their factories in
\* order.
SourceCollections ==
    {<<t>> : t \in GeneratedTrees \cup ScenarioTrees \cup NestedTrees}
    \cup {<<SelectorOver(k), InvertedSequenceOver(k)>> : k \in 1..MaxDualLeaves}


\* ------------------------------------------------------- leaf behaviours
\* The closure of always_running: Running whatever the context.
always_running == "Running"

\* ConditionChecker::visit: Success if the comparison holds in the context,
\* else Failure.
ConditionChecker_visit(holds) == IF holds THEN "Success" ELSE "Failure"

\* LeafNode::visit: the boxed behaviour is called with the context.  lr gives
\* what the context makes each leaf compute in this tick: the result of a
\* user leaf, of an evaluate_int leaf or of a print_text leaf, the outcome of
\* the comparison of a check_condition leaf.
LeafNode_visit(node, lr) ==
    CASE node.factory = "always_running" -> always_running
      [] node.factory = "check_condition" -> ConditionChecker_visit(lr[node.leaf] = "Success")
      [] node.factory = "user" -> lr[node.leaf]
      [] node.factory = "evaluate_int" -> lr[node.leaf]
      [] node.factory = "print_text" -> lr[node.leaf]

\* One record per visit, appended when the visit returns: the pre-order
\* position of the visited node and the result it returned.
Event(id, res) == [id |-> id, res |-> res]

\* --------------------------------------- recursive runtime (non_optimized)
\* NodeFactory::instanciate with SequenceNode::new, SelectorNode::new,
\* PriorityNode::new, InverterNode::new and LeafNode::new: every composite
\* starts with running = None, every leaf gets the behaviour its factory
\* makes.  The Subtree arm panics: the call, and every call above it, returns
\* nothing; "panic" stands for the unwinding.
RECURSIVE NodeFactory_instanciate(_)
NodeFactory_instanciate(f) ==
    IF f.kind = "Subtree"
    THEN [kind |-> "panic", factory |-> f.factory, leaf |-> 0, running |-> None,
          children |-> <<>>]
    ELSE LET children == [j \in 1..Len(f.children) |-> NodeFactory_instanciate(f.children[j])]
             panics == {j \in DOMAIN children : children[j].kind = "panic"}
         IN  IF panics # {}
             THEN children[CHOOSE j \in panics : \A k \in panics : j <= k]
             ELSE [kind |-> f.kind, factory |-> f.factory, leaf |-> f.leaf, running |-> None,
                   children |-> children]

\* TreeFactory::instanciate
TreeFactory_instanciate(f) == NodeFactory_instanciate(f)

\* Pre-order position of child number j (from 0) of the node at position id.
RECURSIVE ChildId(_, _, _)
ChildId(node, id, j) ==
    IF j = 0 THEN id + 1 ELSE ChildId(node, id, j - 1) + TreeSize(node.children[j])

\* SequenceNode_match with the Failure arm left empty.
SequenceNode_match_past_failure(result) ==
    CASE result = "Failure" -> "continue"
      [] result = "Running" -> "Running"
      [] result = "Success" -> "continue"

\* The match of SequenceNode::visit on a child's result: the value returned,
\* or "continue" for the empty arm.
SequenceNode_match(result) ==
    CASE result = "Failure" -> "Failure"
      [] result = "Running" -> "Running"
      [] result = "Success" -> "continue"

\* The match of SelectorNode::visit on a child's result.
SelectorNode_match(result) ==
    CASE result = "Success" -> "Failure"
      [] result = "Running" -> "Running"
      [] result = "Failure" -> "continue"

\* The match of PriorityNode::visit on a child's result.
PriorityNode_match(result) ==
    CASE result = "Failure" -> "Failure"
      [] result = "Running" -> "Running"
      [] result = "Success" -> "continue"

\* The match of InverterNode::visit on the child's result.
InverterNode_match(result) ==
    CASE result = "Success" -> "Failure"
      [] result = "Failure" -> "Success"
      [] result = "Running" -> "Running"

\* self.running.take(): the value taken and the value left behind.
Option_take(running) == [value |-> running, left |-> None]

RECURSIVE Node_visit(_, _, _)

\* SequenceNode::visit
SequenceNode_visit(node, id, lr) ==
    LET taken == Option_take(node.running)
        start == unwrap_or(taken.value, 0)
        RECURSIVE Loop(_, _, _)
        Loop(n, pos, log) ==
            IF start + pos >= Len(n.children)
            THEN [node |-> n, res |-> "Success", log |-> log]
            ELSE LET r == Node_visit(n.children[start + pos + 1], ChildId(n, id, start + pos), lr)
                     n2 == [n EXCEPT !.children[start + pos + 1] = r.node]
                     m == SequenceNode_match(r.res)
                 IN  CASE m = "Failure" -> [node |-> n2, res |-> "Failure", log |-> log \o r.log]
                       [] m = "Running" -> [node |-> [n2 EXCEPT !.running = Some(start + pos)],
                                            res |-> "Running", log |-> log \o r.log]
                       [] OTHER -> Loop(n2, pos + 1, log \o r.log)
    IN  Loop([node EXCEPT !.running = taken.left], 0, <<>>)

\* SelectorNode::visit
SelectorNode_visit(node, id, lr) ==
    LET taken == Option_take(node.running)
        start == unwrap_or(taken.value, 0)
        RECURSIVE Loop(_, _, _)
        Loop(n, pos, log) ==
            IF start + pos >= Len(n.children)
            THEN [node |-> n, res |-> "Failure", log |-> log]
            ELSE LET r == Node_visit(n.children[start + pos + 1], ChildId(n, id, start + pos), lr)
                     n2 == [n EXCEPT !.children[start + pos + 1] = r.node]
                     m == SelectorNode_match(r.res)
                 IN  CASE m = "Failure" -> [node |-> n2, res |-> "Failure", log |-> log \o r.log]
                       [] m = "Success" -> [node |-> n2, res |-> "Success", log |-> log \o r.log]
                       [] m = "Running" -> [node |-> [n2 EXCEPT !.running = Some(start + pos)],
                                            res |-> "Running", log |-> log \o r.log]
                       [] OTHER -> Loop(n2, pos + 1, log \o r.log)
    IN  Loop([node EXCEPT !.running = taken.left], 0, <<>>)

\* PriorityNode_visit that resumes as a sequence does.
PriorityNode_visit_resuming(node, id, lr) == SequenceNode_visit(node, id, lr)

\* PriorityNode::visit
PriorityNode_visit(node, id, lr) ==
    LET RECURSIVE Loop(_, _, _)
        Loop(n, pos, log) ==
            IF pos >= Len(n.children)
            THEN [node |-> n, res |-> "Success", log |-> log]
            ELSE LET r == Node_visit(n.children[pos + 1], ChildId(n, id, pos), lr)
                     n2 == [n EXCEPT !.children[pos + 1] = r.node]
                     m == PriorityNode_match(r.res)
                 IN  IF m = "continue"
                     THEN Loop(n2, pos + 1, log \o r.log)
                     ELSE [node |-> n2, res |-> m, log |-> log \o r.log]
    IN  Loop(node, 0, <<>>)

\* InverterNode::visit
InverterNode_visit(node, id, lr) ==
    LET r == Node_visit(node.children[1], id + 1, lr)
    IN  [node |-> [node EXCEPT !.children[1] = r.node],
         res |-> InverterNode_match(r.res), log |-> r.log]

\* impl BehaviourTreeNode for Node: dispatch on the variant.
Node_visit(node, id, lr) ==
    LET r == CASE node.kind = "Leaf" -> [node |-> node, res |-> LeafNode_visit(node, lr), log |-> <<>>]
               [] node.kind = "Sequence" -> SequenceNode_visit(node, id, lr)
               [] node.kind = "Priority" -> PriorityNode_visit(node, id, lr)
               [] node.kind = "Selector" -> SelectorNode_visit(node, id, lr)
               [] node.kind = "Inverter" -> InverterNode_visit(node, id, lr)
    IN  [r EXCEPT !.log = r.log \o <<Event(id, r.res)>>]

\* impl BehaviourTreeNode for Tree
Tree_visit(root, lr) == Node_visit(root, 1, lr)

\* ------------------------------------------------ flat runtime (tree/mod.rs)
\* optimize_inner: the OptimizedNode made for one factory node.  Sequence and
\* Selector carry running = None; Inverter and Priority carry no state.
\* optimize_inner that makes a Priority node, which keeps no state, for a
\* Subtree.
optimize_inner_subtree_skipped(f) ==
    [kind |-> IF f.kind = "Subtree" THEN "Priority" ELSE f.kind,
     factory |-> f.factory, leaf |-> f.leaf, running |-> None]

\* The Subtree arm panics.
optimize_inner(f) ==
    IF f.kind = "Subtree"
    THEN [kind |-> "panic", factory |-> f.factory, leaf |-> 0, running |-> None]
    ELSE [kind |-> f.kind, factory |-> f.factory, leaf |-> f.leaf, running |-> None]

\* FlatTree::new(&root, 0, optimize_inner): the nodes in pre-order, each with
\* the number of its descendants, from which the child ranges are read.  A
\* panic of optimize_inner on any node unwinds the whole construction.
RECURSIVE FlatTree_new(_)
FlatTree_new(f) ==
    LET RECURSIVE Rest(_)
        Rest(j) == IF j > Len(f.children) THEN <<>>
                   ELSE FlatTree_new(f.children[j]) \o Rest(j + 1)
        flat == <<[node |-> optimize_inner(f), desc |-> TreeSize(f) - 1]>> \o Rest(1)
        panics == {i \in DOMAIN flat : flat[i].node.kind = "panic"}
    IN  IF panics # {}
        THEN <<[node |-> flat[CHOOSE i \in panics : TRUE].node, desc |-> 0]>>
        ELSE flat

\* TreeFactory::optimize
TreeFactory_optimize(f) == FlatTree_new(f)

\* children_mut that yields the children from the last to the first.
children_mut_reversed(flat, i) ==
    LET RECURSIVE From(_)
        From(c) == IF c > i + flat[i].desc THEN <<>>
                   ELSE From(c + flat[c].desc + 1) \o <<c>>
    IN  From(i + 1)

\* ChildrenMut::children_mut: the positions of the children of the node at
\* position i, in order; each child's own subtree follows it.
children_mut(flat, i) ==
    LET RECURSIVE From(_)
        From(c) == IF c > i + flat[i].desc THEN <<>>
                   ELSE <<c>> \o From(c + flat[c].desc + 1)
    IN  From(i + 1)

\* A match in which a child that succeeds leaves the sequence running.
OptimizedSequenceNode_match_success_runs(result) ==
    CASE result = "Running" -> "Running"
      [] result = "Failure" -> "Failure"
      [] result = "Success" -> "Running"

\* The match of OptimizedSequenceNode::visit on a child's result.
OptimizedSequenceNode_match(result) ==
    CASE result = "Running" -> "Running"
      [] result = "Failure" -> "Failure"
      [] result = "Success" -> "continue"

\* OptimizedSelectorNode_match that goes on to the next child after Running.
OptimizedSelectorNode_match_past_running(result) ==
    CASE result = "Running" -> "continue"
      [] result = "Success" -> "Success"
      [] result = "Failure" -> "continue"

\* The match of OptimizedSelectorNode::visit on a child's result.
OptimizedSelectorNode_match(result) ==
    CASE result = "Running" -> "Running"
      [] result = "Success" -> "Success"
      [] result = "Failure" -> "continue"

\* priority_match with the Failure arm left empty.
priority_match_past_failure(result) ==
    CASE result = "Running" -> "Running"
      [] result = "Failure" -> "continue"
      [] result = "Success" -> "continue"

\* The match of priority_visit on a child's result.
priority_match(result) ==
    CASE result = "Running" -> "Running"
      [] result = "Failure" -> "Failure"
      [] result = "Success" -> "continue"

\* inverter_match that inverts Running as it inverts Success.
inverter_match_running_fails(result) ==
    CASE result = "Success" -> "Failure"
      [] result = "Failure" -> "Success"
      [] result = "Running" -> "Failure"

\* The match of inverter_visit on the child's result.
inverter_match(result) ==
    CASE result = "Success" -> "Failure"
      [] result = "Failure" -> "Success"
      [] result = "Running" -> "Running"

\* OptimizedSequenceNode_start that ignores the stored index.
OptimizedSequenceNode_start_from_zero(running) == 0

\* OptimizedSequenceNode::visit, let mut index = self.running.unwrap_or(0):
\* running itself is left as it is.
OptimizedSequenceNode_start(running) == unwrap_or(running, 0)

\* OptimizedSelectorNode_start that ignores the stored index.
OptimizedSelectorNode_start_from_zero(running) == 0

\* OptimizedSelectorNode::visit, let mut index = self.running.unwrap_or(0).
OptimizedSelectorNode_start(running) == unwrap_or(running, 0)

RECURSIVE OptimizedNode_visit(_, _, _)

\* OptimizedSequenceNode::visit
OptimizedSequenceNode_visit(flat, i, lr) ==
    LET children == children_mut(flat, i)
        RECURSIVE Loop(_, _, _)
        Loop(fl, index, log) ==
            IF index >= Len(children)
            THEN [flat |-> fl, res |-> "Success", log |-> log]
            ELSE LET r == OptimizedNode_visit(fl, children[index + 1], lr)
                     m == OptimizedSequenceNode_match(r.res)
                 IN  CASE m = "Running" -> [flat |-> [r.flat EXCEPT ![i].node.running = Some(index)],
                                            res |-> "Running", log |-> log \o r.log]
                       [] m = "Failure" -> [flat |-> r.flat, res |-> "Failure", log |-> log \o r.log]
                       [] OTHER -> Loop(r.flat, index + 1, log \o r.log)
    IN  Loop(flat, OptimizedSequenceNode_start(flat[i].node.running), <<>>)

\* OptimizedSelectorNode::visit
OptimizedSelectorNode_visit(flat, i, lr) ==
    LET children == children_mut(flat, i)
        RECURSIVE Loop(_, _, _)
        Loop(fl, index, log) ==
            IF index >= Len(children)
            THEN [flat |-> fl, res |-> "Failure", log |-> log]
            ELSE LET r == OptimizedNode_visit(fl, children[index + 1], lr)
                     m == OptimizedSelectorNode_match(r.res)
                 IN  CASE m = "Running" -> [flat |-> [r.flat EXCEPT ![i].node.running = Some(index)],
                                            res |-> "Running", log |-> log \o r.log]
                       [] m = "Success" -> [flat |-> r.flat, res |-> "Success", log |-> log \o r.log]
                       [] OTHER -> Loop(r.flat, index + 1, log \o r.log)
    IN  Loop(flat, OptimizedSelectorNode_start(flat[i].node.running), <<>>)

\* priority_visit
priority_visit(flat, i, lr) ==
    LET children == children_mut(flat, i)
        RECURSIVE Loop(_, _, _)
        Loop(fl, index, log) ==
            IF index >= Len(children)
            THEN [flat |-> fl, res |-> "Success", log |-> log]
            ELSE LET r == OptimizedNode_visit(fl, children[index + 1], lr)
                     m == priority_match(r.res)
                 IN  IF m = "continue"
                     THEN Loop(r.flat, index + 1, log \o r.log)
                     ELSE [flat |-> r.flat, res |-> m, log |-> log \o r.log]
    IN  Loop(flat, 0, <<>>)

\* inverter_visit: children.get_mut(0) is the first child.
inverter_visit(flat, i, lr) ==
    LET r == OptimizedNode_visit(flat, children_mut(flat, i)[1], lr)
    IN  [flat |-> r.flat, res |-> inverter_match(r.res), log |-> r.log]

\* OptimizedNode::visit: dispatch on the variant.
OptimizedNode_visit(flat, i, lr) ==
    LET node == flat[i].node
        r == CASE node.kind = "Sequence" -> OptimizedSequenceNode_visit(flat, i, lr)
               [] node.kind = "Inverter" -> inverter_visit(flat, i, lr)
               [] node.kind = "Leaf" -> [flat |-> flat, res |-> LeafNode_visit(node, lr), log |-> <<>>]
               [] node.kind = "Priority" -> priority_visit(flat, i, lr)
               [] node.kind = "Selector" -> OptimizedSelectorNode_visit(flat, i, lr)
    IN  [r EXCEPT !.log = r.log \o <<Event(i, r.res)>>]

\* impl BehaviourTreeNode for OptimizedTree: visit the first node.
OptimizedTree_visit(flat, lr) == OptimizedNode_visit(flat, 1, lr)

\* ------------------------------------------------------------- observation
\* The nodes of a factory tree in pre-order: kind, position of the parent
\* (0 for the root), child number under the parent (from 0), number of
\* children.
RECURSIVE Preorder(_, _, _, _)
Preorder(f, id, parent, idx) ==
    LET RECURSIVE Rest(_)
        Rest(j) == IF j >= Len(f.children) THEN <<>>
                   ELSE Preorder(f.children[j + 1], ChildId(f, id, j), id, j) \o Rest(j + 1)
    IN  <<[kind |-> f.kind, factory |-> f.factory, leaf |-> f.leaf,
           parent |-> parent, idx |-> idx, nch |-> Len(f.children)]>> \o Rest(0)

NodeTable(f) == Preorder(f, 1, 0, 0)

\* The labels of the leaves of a factory tree that a factory of the given
\* name made.
RECURSIVE LeavesOf(_, _)
LeavesOf(f, name) ==
    IF f.kind = "Leaf"
    THEN (IF f.factory = name THEN {f.leaf} ELSE {})
    ELSE UNION {LeavesOf(f.children[j], name) : j \in 1..Len(f.children)}

\* The node at pre-order position v was visited in the tick that wrote log.
Visited(log, v) == \E k \in DOMAIN log : log[k].id = v

\* The result the node at position v returned in that tick.
ResultOf(log, v) == log[CHOOSE k \in DOMAIN log : log[k].id = v].res

\* The children of the node at position v that were ticked in that tick, in
\* the order in which they were ticked: child number and result.
ChildTicks(log, tab, v) ==
    LET sel == SelectSeq(log, LAMBDA e : tab[e.id].parent = v)
    IN  [k \in 1..Len(sel) |-> [idx |-> tab[sel[k].id].idx, res |-> sel[k].res]]

\* The leaves ticked in that tick, in order: label or factory name, and result.
LeafTicks(log, tab) ==
    LET sel == SelectSeq(log, LAMBDA e : tab[e.id].kind = "Leaf")
    IN  [k \in 1..Len(sel) |-> [factory |-> tab[sel[k].id].factory,
                                leaf |-> tab[sel[k].id].leaf, res |-> sel[k].res]]

Range(q) == {q[k] : k \in DOMAIN q}

\* The result of a child after which a composite goes on to the next child.
PassResult(kind) == IF kind = "Selector" THEN "Failure" ELSE "Success"

\* What has been seen of one node: run is the child whose Running ended the
\* node's latest tick (None if it ended otherwise), done the children that
\* returned the pass result since the node last returned Running without a
\* Success or Failure in between; prevRun and prevDone are run and done as
\* they were before the node's latest tick, and stored is the node's running
\* field as it was when that tick began.
NeverSeen == [run |-> None, prevRun |-> None, done |-> {}, prevDone |-> {}, stored |-> None]

SeenAfter(seen, tab, log, running) ==
    [v \in DOMAIN tab |->
        IF ~Visited(log, v) THEN seen[v]
        ELSE LET ct == ChildTicks(log, tab, v)
                 res == ResultOf(log, v)
                 run == IF ct # <<>> /\ ct[Len(ct)].res = "Running" /\ res = "Running"
                        THEN Some(ct[Len(ct)].idx) ELSE None
                 passed == {ct[k].idx : k \in {j \in DOMAIN ct : ct[j].res = PassResult(tab[v].kind)}}
             IN  [run |-> run, prevRun |-> seen[v].run,
                  done |-> IF res = "Running" THEN seen[v].done \cup passed ELSE {},
                  prevDone |-> seen[v].done, stored |-> running[v]]]

\* The running fields of the nodes of a Tree, in pre-order.
RECURSIVE Tree_running(_)
Tree_running(node) ==
    LET RECURSIVE Rest(_)
        Rest(j) == IF j > Len(node.children) THEN <<>>
                   ELSE Tree_running(node.children[j]) \o Rest(j + 1)
    IN  <<node.running>> \o Rest(1)

\* The running fields of the nodes of an OptimizedTree, in pre-order.
OptimizedTree_running(flat) == [v \in DOMAIN flat |-> flat[v].node.running]

\* The number of leaves of a factory tree.
NumLeaves(f) == Cardinality({v \in DOMAIN NodeTable(f) : NodeTable(f)[v].kind = "Leaf"})

\* NodeFactory::Leaf(ref node_factory) => Node::Leaf(node_factory()) and
\* OptimizedNode::Leaf(leaf()): each call of a leaf factory makes one more
\* leaf behaviour.  The behaviours made for the leaves of f, in pre-order,
\* when made behaviours exist already: they are numbered in order of creation.
LeafNodeFactory_call(f, made) == [k \in 1..NumLeaves(f) |-> made + k]

\* The leaf behaviours of the Tree and of the OptimizedTree built from f.
MintBoth(f, made) ==
    [rec |-> LeafNodeFactory_call(f, made),
     opt |-> LeafNodeFactory_call(f, made + NumLeaves(f))]

\* The number of leaf behaviours made when the first n factories of fs have
\* each been instanciated and optimized once.
RECURSIVE MadeAfter(_, _)
MadeAfter(fs, n) == IF n = 0 THEN 0 ELSE MadeAfter(fs, n - 1) + 2 * NumLeaves(fs[n])

\* ------------------------------------------------------------------ state
VARIABLES
    factories,  \* per slot: the TreeFactory its instances are built from
    tables,     \* per slot: the nodes of the factory in pre-order (never changes)
    trees,      \* per slot: the Tree made by instanciate()
    flats,      \* per slot: the OptimizedTree made by optimize()
    recLog,     \* per slot: the visits of the latest tick of the Tree
    optLog,     \* per slot: the visits of the latest tick of the OptimizedTree
    recSeen,    \* per slot and node: what has been seen of the Tree
    optSeen,    \* per slot and node: what has been seen of the OptimizedTree
    behaviours, \* per slot: the leaf behaviours of the Tree and of the OptimizedTree
    minted,     \* the number of leaf behaviours made so far
    last,       \* the latest operation and the slots it was applied to
    source,     \* parse: the input, as the grammar reads it
    leaves,     \* parse: the leaf registry
    parsed,     \* parse: what it returned and the leaves it resolved (NotRun before)
    context,    \* the context: a map from String to StoreKind
    storeOp,    \* the latest operation on the context: arguments, map before, result
    expression, \* the postfix expression handed to evaluate_expression_int
    overflow_checks, \* the build panics on arithmetic overflow (debug) or wraps (release)
    evaluated,  \* what evaluate_expression_int did: returned a value or panicked
    contexts,   \* per runtime: the context its instance is visited with, the
                \* context before the latest visit, whether a visit panicked
    chars,      \* lexer: the input, a sequence of characters
    memory,     \* lexer: the Memory iterator of the Tokenizer over the input
    emitted,    \* lexer: what the calls of Tokenizer::next returned, in order
    apiCall,    \* a call of a function of the library: the function, its arguments
    apiResult,  \* what the call returned
    streaks     \* driver: per leaf, how many times in a row it has returned Running

treeVars == <<factories, tables, trees, flats, recLog, optLog, recSeen, optSeen,
              behaviours, minted, last>>

parseVars == <<source, leaves, parsed>>

storeVars == <<context, storeOp>>

evalVars == <<expression, overflow_checks, evaluated>>

lexVars == <<chars, memory, emitted>>

callVars == <<apiCall, apiResult>>

driveVars == <<streaks>>

stdVars == <<parseVars, storeVars, evalVars, contexts, lexVars, callVars, driveVars>>

vars == <<treeVars, stdVars>>

\* The value of a variable in a specification that does not use it.
NotRun == "not run"

ParseIdle == source = NotRun /\ leaves = NotRun /\ parsed = NotRun

StoreIdle == context = NotRun /\ storeOp = NotRun

EvalIdle == expression = NotRun /\ overflow_checks = NotRun /\ evaluated = NotRun

LexIdle == chars = NotRun /\ memory = NotRun /\ emitted = NotRun

CallIdle == apiCall = NotRun /\ apiResult = NotRun

DriveIdle == streaks = NotRun

StdIdle ==
    ParseIdle /\ StoreIdle /\ EvalIdle /\ contexts = NotRun /\ LexIdle /\ CallIdle /\ DriveIdle

TreesIdle ==
    /\ factories = <<>> /\ tables = <<>> /\ trees = <<>> /\ flats = <<>>
    /\ recLog = <<>> /\ optLog = <<>> /\ recSeen = <<>> /\ optSeen = <<>>
    /\ behaviours = <<>> /\ minted = 0 /\ last = [op |-> NotRun, slots |-> {}]

Slots == DOMAIN factories

Init ==
    /\ factories \in SourceCollections
    /\ tables = [s \in DOMAIN factories |-> NodeTable(factories[s])]
    /\ trees = [s \in DOMAIN factories |-> TreeFactory_instanciate(factories[s])]
    /\ flats = [s \in DOMAIN factories |-> TreeFactory_optimize(factories[s])]
    /\ recLog = [s \in DOMAIN factories |-> <<>>]
    /\ optLog = [s \in DOMAIN factories |-> <<>>]
    /\ recSeen = [s \in DOMAIN factories |->
                    [v \in 1..TreeSize(factories[s]) |-> NeverSeen]]
    /\ optSeen = recSeen
    /\ behaviours = [s \in DOMAIN factories |->
                        MintBoth(factories[s], MadeAfter(factories, s - 1))]
    /\ minted = MadeAfter(factories, Len(factories))
    /\ last = [op |-> "parse", slots |-> DOMAIN factories]
    /\ StdIdle

\* What the context can make the leaves of the collection compute in one
\* tick: any result for a user leaf, a comparison that holds ("Success") or
\* does not ("Failure") for a check_condition leaf.
LeafResults ==
    LET user == UNION {LeavesOf(factories[s], "user") : s \in Slots}
        cond == UNION {LeavesOf(factories[s], "check_condition") : s \in Slots}
    IN  {lr \in [user \cup cond -> VisitResult] : \A l \in cond : lr[l] # "Running"}

\* One iteration of the driver: every instance is visited once against the
\* same context, in which the user leaves return lr.
Tick(lr) ==
    LET rec == [s \in Slots |-> Tree_visit(trees[s], lr)]
        opt == [s \in Slots |-> OptimizedTree_visit(flats[s], lr)]
    IN  /\ trees' = [s \in Slots |-> rec[s].node]
        /\ flats' = [s \in Slots |-> opt[s].flat]
        /\ recLog' = [s \in Slots |-> rec[s].log]
        /\ optLog' = [s \in Slots |-> opt[s].log]
        /\ recSeen' = [s \in Slots |->
                SeenAfter(recSeen[s], tables[s], rec[s].log, Tree_running(trees[s]))]
        /\ optSeen' = [s \in Slots |->
                SeenAfter(optSeen[s], tables[s], opt[s].log, OptimizedTree_running(flats[s]))]
        /\ last' = [op |-> "visit", slots |-> Slots]
        /\ UNCHANGED <<factories, tables, behaviours, minted, stdVars>>

Next == \E lr \in LeafResults : Tick(lr)

Spec == Init /\ [][Next]_vars

\* ------------------------------------------- several instances of a factory
\* How many times one factory is instanciated and optimized.
MaxInstances == 2

\* The factories that are instanciated several times:
\*   sequence { a, always_running }   selector { a, always_running }
InstanceTrees ==
    { new_sequence(<<LeafFactory(2), AlwaysRunningFactory>>),
      new_selector(<<LeafFactory(2), AlwaysRunningFactory>>) }

\* parse has returned one factory, and it has been instanciated and optimized
\* once.
InitInstances ==
    /\ factories \in {<<t>> : t \in InstanceTrees}
    /\ tables = <<NodeTable(factories[1])>>
    /\ trees = <<TreeFactory_instanciate(factories[1])>>
    /\ flats = <<TreeFactory_optimize(factories[1])>>
    /\ recLog = << <<>> >>
    /\ optLog = << <<>> >>
    /\ recSeen = <<[v \in 1..TreeSize(factories[1]) |-> NeverSeen]>>
    /\ optSeen = recSeen
    /\ behaviours = <<MintBoth(factories[1], 0)>>
    /\ minted = 2 * NumLeaves(factories[1])
    /\ last = [op |-> "build", slots |-> {1}]
    /\ StdIdle

\* Build that copies the instances built before instead of walking the
\* factory.
Build_from_instance ==
    /\ Len(factories) < MaxInstances
    /\ factories' = Append(factories, factories[1])
    /\ tables' = Append(tables, tables[1])
    /\ trees' = Append(trees, trees[1])
    /\ flats' = Append(flats, flats[1])
    /\ recLog' = Append(recLog, <<>>)
    /\ optLog' = Append(optLog, <<>>)
    /\ recSeen' = Append(recSeen, [v \in DOMAIN tables[1] |-> NeverSeen])
    /\ optSeen' = Append(optSeen, [v \in DOMAIN tables[1] |-> NeverSeen])
    /\ behaviours' = Append(behaviours, behaviours[1])
    /\ minted' = minted
    /\ last' = [op |-> "build", slots |-> {Len(factories) + 1}]
    /\ UNCHANGED stdVars

\* tree.instanciate() and tree.optimize() on the factory, once more: the new
\* Tree and OptimizedTree take the next slot.  &self: the factory is only read.
Build ==
    /\ Len(factories) < MaxInstances
    /\ factories' = Append(factories, factories[1])
    /\ tables' = Append(tables, tables[1])
    /\ trees' = Append(trees, TreeFactory_instanciate(factories[1]))
    /\ flats' = Append(flats, TreeFactory_optimize(factories[1]))
    /\ recLog' = Append(recLog, <<>>)
    /\ optLog' = Append(optLog, <<>>)
    /\ recSeen' = Append(recSeen, [v \in DOMAIN tables[1] |-> NeverSeen])
    /\ optSeen' = Append(optSeen, [v \in DOMAIN tables[1] |-> NeverSeen])
    /\ behaviours' = Append(behaviours, MintBoth(factories[1], minted))
    /\ minted' = minted + 2 * NumLeaves(factories[1])
    /\ last' = [op |-> "build", slots |-> {Len(factories) + 1}]
    /\ UNCHANGED stdVars

\* TickOne that keeps the resumable state with the factory, so that every
\* instance of the factory sees it.
TickOne_shared(s, lr) ==
    LET rec == Tree_visit(trees[s], lr)
        opt == OptimizedTree_visit(flats[s], lr)
    IN  /\ trees' = [t \in Slots |-> rec.node]
        /\ flats' = [t \in Slots |-> opt.flat]
        /\ recLog' = [recLog EXCEPT ![s] = rec.log]
        /\ optLog' = [optLog EXCEPT ![s] = opt.log]
        /\ recSeen' = [recSeen EXCEPT ![s] =
                SeenAfter(recSeen[s], tables[s], rec.log, Tree_running(trees[s]))]
        /\ optSeen' = [optSeen EXCEPT ![s] =
                SeenAfter(optSeen[s], tables[s], opt.log, OptimizedTree_running(flats[s]))]
        /\ last' = [op |-> "visit", slots |-> {s}]
        /\ UNCHANGED <<factories, tables, behaviours, minted, stdVars>>

\* instance.visit(&mut context) on the instances of one slot only: &mut self
\* is the one Tree, the one OptimizedTree.
TickOne(s, lr) ==
    LET rec == Tree_visit(trees[s], lr)
        opt == OptimizedTree_visit(flats[s], lr)
    IN  /\ trees' = [trees EXCEPT ![s] = rec.node]
        /\ flats' = [flats EXCEPT ![s] = opt.flat]
        /\ recLog' = [recLog EXCEPT ![s] = rec.log]
        /\ optLog' = [optLog EXCEPT ![s] = opt.log]
        /\ recSeen' = [recSeen EXCEPT ![s] =
                SeenAfter(recSeen[s], tables[s], rec.log, Tree_running(trees[s]))]
        /\ optSeen' = [optSeen EXCEPT ![s] =
                SeenAfter(optSeen[s], tables[s], opt.log, OptimizedTree_running(flats[s]))]
        /\ last' = [op |-> "visit", slots |-> {s}]
        /\ UNCHANGED <<factories, tables, behaviours, minted, stdVars>>

NextInstances ==
    \/ Build
    \/ \E s \in Slots : \E lr \in LeafResults : TickOne(s, lr)

SpecInstances == InitInstances /\ [][NextInstances]_vars

\* ------------------------------------------------------ parse and registry
\* Result<T, String>
Ok(x) == [ok |-> TRUE, value |-> x]

Err(e) == [ok |-> FALSE, value |-> e]

\* Value::String and Value::Integer; a string is the sequence of its
\* characters.
Value_String(text) == [kind |-> "String", value |-> text]

Value_Integer(n) == [kind |-> "Integer", value |-> n]

\* str::replace(from, to) for one-character patterns.
str_replace(text, from, to) == [k \in DOMAIN text |-> IF text[k] = from THEN to ELSE text[k]]

\* print_text: the leaf factory of a PrintText with the message, "_" replaced
\* by " "; an error for any argument that is not a string.
print_text(options) ==
    IF options # None /\ options[1].kind = "String"
    THEN Ok([factory |-> "print_text", leaf |-> str_replace(options[1].value, "_", " ")])
    ELSE Err(<<"Expected message, found ", options>>)

\* always_running as a leaf-factory-factory: whatever the argument, the
\* factory of the closure that returns Running.
always_running_factory(options) == Ok([factory |-> "always_running", leaf |-> 0])

\* LeafNodeFactoryFactory::create_factory: the registered function is called
\* with the argument.
create_factory(fact_fact, option) ==
    CASE fact_fact = "print_text" -> print_text(option)
      [] fact_fact = "always_running" -> always_running_factory(option)

\* LeavesCollection::new: no entry.
LeavesCollection_new == [name \in {} |-> NotRun]

\* LeavesCollection::register_function: HashMap::insert.
register_function(collection, key, f) ==
    [name \in DOMAIN collection \cup {key} |-> IF name = key THEN f ELSE collection[name]]

\* LeavesCollection::standard: insert_all! with the one entry that is not
\* commented out.
LeavesCollection_standard == register_function(LeavesCollection_new, "print_text", "print_text")

\* FactoryProducer::generate_leaf for LeavesCollection
generate_leaf(collection, name, option) ==
    IF name \notin DOMAIN collection
    THEN Err(<<"Could not find leaf with name ", name>>)
    ELSE create_factory(collection[name], option)

\* ast::Node
Node_Leaf(name, options) == [kind |-> "Leaf", name |-> name, options |-> options, children |-> <<>>]

Node_Composite(kind, children) == [kind |-> kind, name |-> "", options |-> None, children |-> children]

\* NodeFactory::new_leaf
new_leaf(f) == [kind |-> "Leaf", factory |-> f.factory, leaf |-> f.leaf, children |-> <<>>]

\* resolve_dependencies with resolve_dependencies_vec: the NodeFactory for
\* the node or the first error, and in calls the leaves handed to
\* generate_leaf, in order.  try! returns the first error at once.
RECURSIVE resolve_dependencies(_, _)
resolve_dependencies(node, collection) ==
    LET RECURSIVE resolve_dependencies_vec(_, _, _)
        resolve_dependencies_vec(j, new_nodes, calls) ==
            IF j > Len(node.children)
            THEN [ok |-> TRUE, value |-> new_nodes, calls |-> calls]
            ELSE LET new_node == resolve_dependencies(node.children[j], collection)
                 IN  IF ~new_node.ok
                     THEN [new_node EXCEPT !.calls = calls \o new_node.calls]
                     ELSE resolve_dependencies_vec(j + 1, Append(new_nodes, new_node.value),
                                                   calls \o new_node.calls)
    IN  IF node.kind = "Leaf"
        THEN LET f == generate_leaf(collection, node.name, node.options)
                 call == <<[name |-> node.name, options |-> node.options]>>
             IN  IF ~f.ok
                 THEN [ok |-> FALSE, calls |-> call,
                       value |-> <<"Could not find leaf node ", node.name, ": ", f.value>>]
                 ELSE [ok |-> TRUE, calls |-> call, value |-> new_leaf(f.value)]
        ELSE LET new_children == resolve_dependencies_vec(1, <<>>, <<>>)
             IN  IF ~new_children.ok THEN new_children
                 ELSE [new_children EXCEPT !.value =
                           CASE node.kind = "Sequence" -> new_sequence(new_children.value)
                             [] node.kind = "Selector" -> new_selector(new_children.value)
                             [] node.kind = "Priority" -> new_priority(new_children.value)
                             [] node.kind = "Inverter" -> new_inverter(new_children.value[1])]

\* TreeFactory::new
TreeFactory_new(root, name) == [name |-> name, root |-> root]

\* parse that leaves out the trees that do not resolve and returns the
\* others.
parse_keep_resolved(input, collection) ==
    IF ~input.grammar.ok
    THEN [ok |-> FALSE, value |-> <<"Parsing error ", input.grammar.value>>, calls |-> <<>>]
    ELSE LET ast_trees == input.grammar.value
             RECURSIVE Loop(_, _, _)
             Loop(j, new_trees, calls) ==
                 IF j > Len(ast_trees)
                 THEN [ok |-> TRUE, value |-> new_trees, calls |-> calls]
                 ELSE LET new_root == resolve_dependencies(ast_trees[j].root, collection)
                      IN  Loop(j + 1,
                               IF new_root.ok
                               THEN Append(new_trees, TreeFactory_new(new_root.value, ast_trees[j].name))
                               ELSE new_trees,
                               calls \o new_root.calls)
         IN  Loop(1, <<>>, <<>>)

\* parse: input.grammar is what parser::parse_TreeCollection returns for the
\* tokens of the input, the trees or an error.
parse(input, collection) ==
    IF ~input.grammar.ok
    THEN [ok |-> FALSE, value |-> <<"Parsing error ", input.grammar.value>>, calls |-> <<>>]
    ELSE LET ast_trees == input.grammar.value
             RECURSIVE Loop(_, _, _)
             Loop(j, new_trees, calls) ==
                 IF j > Len(ast_trees)
                 THEN [ok |-> TRUE, value |-> new_trees, calls |-> calls]
                 ELSE LET new_root == resolve_dependencies(ast_trees[j].root, collection)
                      IN  IF ~new_root.ok
                          THEN [new_root EXCEPT !.calls = calls \o new_root.calls]
                          ELSE Loop(j + 1,
                                    Append(new_trees, TreeFactory_new(new_root.value, ast_trees[j].name)),
                                    calls \o new_root.calls)
         IN  Loop(1, <<>>, <<>>)

\* The largest number of nodes of a tree of a parsed source.
MaxAstNodes == 3

\* The leaf invocations of the sources: print_text("a_b"), print_text(1),
\* print_text, always_running, walk.
AstLeaves ==
    { Node_Leaf("print_text", Some(Value_String(<<"a", "_", "b">>))),
      Node_Leaf("print_text", Some(Value_Integer(1))),
      Node_Leaf("print_text", None),
      Node_Leaf("always_running", None),
      Node_Leaf("walk", None) }

\* The syntax trees with n nodes, and the sequences of syntax trees with m
\* nodes in all.
RECURSIVE AstAt(_), AstForestsAt(_)
AstAt(n) ==
    IF n = 1 THEN AstLeaves
    ELSE {Node_Composite("Inverter", <<c>>) : c \in AstAt(n - 1)}
         \cup {Node_Composite(k, cs) : k \in CompositeKinds, cs \in AstForestsAt(n - 1)}

AstForestsAt(m) ==
    IF m = 0 THEN {<<>>}
    ELSE UNION {{<<t>> \o f : t \in AstAt(j), f \in AstForestsAt(m - j)} : j \in 1..m}

\* An input of parse that the tokenizer or the grammar rejects.
BadSource == [grammar |-> Err(<<"unexpected token">>)]

\* The inputs of parse that the grammar accepts: one tree of up to
\* MaxAstNodes nodes; two trees, the first of up to two nodes, the second of
\* up to two nodes or a sequence of two leaves.
Sources ==
    LET small == AstAt(1) \cup AstAt(2)
        pairs == {Node_Composite("Sequence", <<a, b>>) : a \in AstLeaves, b \in AstLeaves}
    IN  {[grammar |-> Ok(<<[name |-> "t1", root |-> r]>>)] :
                 r \in UNION {AstAt(n) : n \in 1..MaxAstNodes}}
        \cup {[grammar |-> Ok(<<[name |-> "t1", root |-> r1], [name |-> "t2", root |-> r2]>>)] :
                 r1 \in small, r2 \in small \cup pairs}

\* The registries: the standard one, the standard one with always_running
\* registered by the caller, an empty one.
Registries ==
    { LeavesCollection_standard,
      register_function(LeavesCollection_standard, "always_running", "always_running"),
      LeavesCollection_new }

\* parse has not returned yet.
NotParsed == [run |-> FALSE, ok |-> FALSE, value |-> <<>>, calls |-> <<>>]

InitParse ==
    /\ source \in Sources \/ source = BadSource
    /\ leaves \in Registries
    /\ parsed = NotParsed
    /\ TreesIdle
    /\ StoreIdle
    /\ EvalIdle
    /\ contexts = NotRun
    /\ LexIdle /\ CallIdle /\ DriveIdle

\* behaviour_tree::parse(&string, &leaves)
Parse ==
    /\ ~parsed.run
    /\ parsed' = [run |-> TRUE] @@ parse(source, leaves)
    /\ UNCHANGED <<source, leaves, treeVars, storeVars, evalVars, contexts, lexVars, callVars, driveVars>>

NextParse == Parse

SpecParse == InitParse /\ [][NextParse]_vars

\* ---------------------------------------------------------- context store
\* StoreKind::I64 and StoreKind::String
StoreKind_I64(n) == [kind |-> "I64", value |-> n]

StoreKind_String(text) == [kind |-> "String", value |-> text]

\* HashMap::insert: the key maps to the value, whether it was there or not.
HashMap_insert(map, key, value) ==
    [k \in DOMAIN map \cup {key} |-> IF k = key THEN value ELSE map[k]]

\* Context::insert_value for HashMap
Context_insert_value(map, key, value) == HashMap_insert(map, key, value)

\* Context_set_value that inserts the binding when the key is absent.
Context_set_value_or_insert(map, key, value) ==
    [map |-> HashMap_insert(map, key, value), result |-> "Ok"]

\* Context::set_value for HashMap: get_mut(key), then *v = value and Ok(()) on
\* Some(v), Err(()) on None.
Context_set_value(map, key, value) ==
    IF key \in DOMAIN map
    THEN [map |-> [map EXCEPT ![key] = value], result |-> "Ok"]
    ELSE [map |-> map, result |-> "Err"]

\* The keys and the values of the contexts.
StoreKeys == {"x", "y", "z"}

StoreValues == {StoreKind_I64(0), StoreKind_I64(3), StoreKind_String(<<"a">>)}

\* HashMap::new()
HashMap_new == [k \in {} |-> NotRun]

\* The context starts empty.
InitStore ==
    /\ context = HashMap_new
    /\ storeOp = [name |-> "new", key |-> "", value |-> StoreKind_I64(0),
                  before |-> HashMap_new, result |-> "Ok"]
    /\ TreesIdle
    /\ ParseIdle
    /\ EvalIdle
    /\ contexts = NotRun
    /\ LexIdle /\ CallIdle /\ DriveIdle

\* context.insert_value(key, value)
InsertValue(key, value) ==
    /\ context' = Context_insert_value(context, key, value)
    /\ storeOp' = [name |-> "insert_value", key |-> key, value |-> value,
                   before |-> context, result |-> "Ok"]
    /\ UNCHANGED <<treeVars, parseVars, evalVars, contexts, lexVars, callVars, driveVars>>

\* context.set_value(key, value)
SetValue(key, value) ==
    LET r == Context_set_value(context, key, value)
    IN  /\ context' = r.map
        /\ storeOp' = [name |-> "set_value", key |-> key, value |-> value,
                       before |-> context, result |-> r.result]
        /\ UNCHANGED <<treeVars, parseVars, evalVars, contexts, lexVars, callVars, driveVars>>

NextStore ==
    \/ \E key \in StoreKeys : \E value \in StoreValues : InsertValue(key, value)
    \/ \E key \in StoreKeys : \E value \in StoreValues : SetValue(key, value)

SpecStore == InitStore /\ [][NextStore]_vars

\* ---------------------------------------------------- postfix expressions
\* The width at which i64 is modelled: the arithmetic is that of two's
\* complement integers of IntBits bits.
IntBits == 8

i64_MIN == -(2 ^ (IntBits - 1))

i64_MAX == 2 ^ (IntBits - 1) - 1

\* PostfixedExpressionMember
Op(operator) == [kind |-> "Op", value |-> operator]

Constant(n) == [kind |-> "Constant", value |-> n]

Variable(name) == [kind |-> "Variable", value |-> name]

Operators == {"Plus", "Minus", "Multiply", "Divide"}

\* Integer division as the machine does it: the quotient is rounded toward
\* zero.
TruncDiv(a, b) ==
    LET abs(n) == IF n < 0 THEN -n ELSE n
        q == abs(a) \div abs(b)
    IN  IF (a < 0) = (b < 0) THEN q ELSE -q

\* apply_operator with the two operands exchanged.
apply_operator_swapped(operator, member1, member2) ==
    CASE operator = "Plus" -> member2 + member1
      [] operator = "Minus" -> member2 - member1
      [] operator = "Multiply" -> member2 * member1
      [] operator = "Divide" -> TruncDiv(member2, member1)

\* match operator { Plus => member1 + member2, ... }: the exact result.
apply_operator(operator, member1, member2) ==
    CASE operator = "Plus" -> member1 + member2
      [] operator = "Minus" -> member1 - member2
      [] operator = "Multiply" -> member1 * member2
      [] operator = "Divide" -> TruncDiv(member1, member2)

\* What an i64 operation yields: a panic on a zero divisor and on
\* i64::MIN / -1 in every build; on a result outside i64 a panic in a build
\* with overflow checks, the result modulo 2^IntBits in one without.
i64_operation(operator, member1, member2, checks) ==
    IF operator = "Divide" /\ member2 = 0
    THEN [returned |-> FALSE, value |-> 0, panic |-> "attempt to divide by zero"]
    ELSE IF operator = "Divide" /\ member1 = i64_MIN /\ member2 = -1
    THEN [returned |-> FALSE, value |-> 0, panic |-> "attempt to divide with overflow"]
    ELSE LET exact == apply_operator(operator, member1, member2)
         IN  IF exact >= i64_MIN /\ exact <= i64_MAX
             THEN [returned |-> TRUE, value |-> exact, panic |-> ""]
             ELSE IF checks
             THEN [returned |-> FALSE, value |-> 0, panic |-> "arithmetic operation overflowed"]
             ELSE [returned |-> TRUE, panic |-> "",
                   value |-> ((exact - i64_MIN) % (2 ^ IntBits)) + i64_MIN]

\* assert_stack_is_empty that lets a residue pass.
assert_stack_is_empty_unchecked(stack) == TRUE

\* assert!(stack.is_empty())
assert_stack_is_empty(stack) == stack = <<>>

\* evaluate_expression_int: the value returned, or the panic.
evaluate_expression_int(map, members, checks) ==
    LET Panic(message) == [returned |-> FALSE, value |-> 0, panic |-> message]
        RECURSIVE Loop(_, _)
        Loop(k, stack) ==
            IF k > Len(members)
            THEN IF stack = <<>> THEN Panic("Unexpected absence of result!")
                 ELSE IF ~assert_stack_is_empty(SubSeq(stack, 1, Len(stack) - 1))
                 THEN Panic("assertion failed: stack.is_empty()")
                 ELSE [returned |-> TRUE, value |-> stack[Len(stack)], panic |-> ""]
            ELSE LET member == members[k]
                 IN  CASE member.kind = "Constant" -> Loop(k + 1, Append(stack, member.value))
                       [] member.kind = "Variable" ->
                              IF member.value \in DOMAIN map /\ map[member.value].kind = "I64"
                              THEN Loop(k + 1, Append(stack, map[member.value].value))
                              ELSE Panic("Expected I64 as variable value")
                       [] member.kind = "Op" ->
                              IF stack = <<>> THEN Panic("Expected first expression member")
                              ELSE IF Len(stack) = 1 THEN Panic("Expected second expression member")
                              ELSE LET member2 == stack[Len(stack)]
                                       member1 == stack[Len(stack) - 1]
                                       result == i64_operation(member.value, member1, member2, checks)
                                   IN  IF ~result.returned THEN result
                                       ELSE Loop(k + 1, Append(SubSeq(stack, 1, Len(stack) - 2),
                                                               result.value))
    IN  Loop(1, <<>>)

\* The longest generated expression.
MaxMembers == 3

\* The members of the generated expressions.
Members ==
    {Constant(n) : n \in {0, 2, -1, i64_MAX, i64_MIN}}
    \cup {Variable(name) : name \in {"forty_two", "text", "missing"}}
    \cup {Op(operator) : operator \in Operators}

\* The expressions of the tests evaluate_int, incorrect_expression and
\* evaluate_int_variable.
TestExpressions ==
    { <<Constant(1), Constant(2), Op("Plus")>>,
      <<Constant(1), Constant(2), Op("Plus"), Op("Multiply")>>,
      <<Constant(2), Variable("forty_two"), Variable("two"), Op("Divide"), Op("Multiply"),
        Constant(3), Op("Minus")>> }

Expressions ==
    UNION {[1..n -> Members] : n \in 0..MaxMembers} \cup TestExpressions

\* The context of the test evaluate_int_variable, with one variable that is
\* not an integer.
TestContext ==
    HashMap_insert(HashMap_insert(HashMap_insert(HashMap_new,
        "forty_two", StoreKind_I64(42)), "two", StoreKind_I64(2)),
        "text", StoreKind_String(<<"a">>))

NotEvaluated == [run |-> FALSE, returned |-> FALSE, value |-> 0, panic |-> ""]

InitEval ==
    /\ expression \in Expressions
    /\ overflow_checks \in BOOLEAN
    /\ evaluated = NotEvaluated
    /\ context = TestContext
    /\ storeOp = NotRun
    /\ contexts = NotRun
    /\ LexIdle /\ CallIdle /\ DriveIdle
    /\ TreesIdle
    /\ ParseIdle

\* evaluate_expression_int(&context, &expression)
Evaluate ==
    /\ ~evaluated.run
    /\ evaluated' = [run |-> TRUE] @@ evaluate_expression_int(context, expression, overflow_checks)
    /\ UNCHANGED <<expression, overflow_checks, context, storeOp, contexts, treeVars, parseVars,
                   lexVars, callVars, driveVars>>

NextEval == Evaluate

SpecEval == InitEval /\ [][NextEval]_vars

\* ------------------------------------------------- building from a factory
\* The factory tree f with the user leaves labelled in ids replaced by
\* references to another tree.
RECURSIVE WithSubtrees(_, _)
WithSubtrees(f, ids) ==
    IF f.kind = "Leaf"
    THEN (IF f.leaf \in ids THEN new_subtree("other") ELSE f)
    ELSE [f EXCEPT !.children = [j \in DOMAIN f.children |-> WithSubtrees(f.children[j], ids)]]

\* The factory trees an embedder can make with the constructors of
\* NodeFactory, new_subtree included.
BuildTrees ==
    {WithSubtrees(t, ids) : t \in GeneratedTrees, ids \in SUBSET {2, 3}}

\* A factory of which nothing has been built yet.
InitBuild ==
    /\ factories \in {<<t>> : t \in BuildTrees}
    /\ tables = <<NodeTable(factories[1])>>
    /\ trees = <<>> /\ flats = <<>>
    /\ recLog = <<>> /\ optLog = <<>> /\ recSeen = <<>> /\ optSeen = <<>>
    /\ behaviours = <<>> /\ minted = 0
    /\ last = [op |-> "new", slots |-> {1}]
    /\ StdIdle

\* factory.instanciate(): what the call returns, or that it panicked.
Instanciate ==
    /\ trees = <<>>
    /\ trees' = <<TreeFactory_instanciate(factories[1])>>
    /\ last' = [op |-> "instanciate", slots |-> {1}]
    /\ UNCHANGED <<factories, tables, flats, recLog, optLog, recSeen, optSeen,
                   behaviours, minted, stdVars>>

\* factory.optimize(): what the call returns, or that it panicked.
Optimize ==
    /\ flats = <<>>
    /\ flats' = <<TreeFactory_optimize(factories[1])>>
    /\ last' = [op |-> "optimize", slots |-> {1}]
    /\ UNCHANGED <<factories, tables, trees, recLog, optLog, recSeen, optSeen,
                   behaviours, minted, stdVars>>

NextBuild == Instanciate \/ Optimize

SpecBuild == InitBuild /\ [][NextBuild]_vars

\* ------------------------------------------------ the standard leaves, ticked
\* ExpressionEvaluator and ConditionChecker: what the closures built by
\* evaluate_int_node and check_condition_node capture.
ExpressionEvaluator(expression_, variable) ==
    [expression |-> expression_, variable |-> variable]

ConditionChecker(exp1, exp2, operator) ==
    [exp1 |-> exp1, exp2 |-> exp2, operator |-> operator]

\* The LeafNodeFactory evaluate_int_node returns: every call makes a LeafNode
\* around a clone of the evaluator.
EvaluateIntFactory(expression_, variable) ==
    [kind |-> "Leaf", factory |-> "evaluate_int",
     leaf |-> ExpressionEvaluator(expression_, variable), children |-> <<>>]

\* The LeafNodeFactory check_condition_node returns.
CheckConditionFactory(exp1, exp2, operator) ==
    [kind |-> "Leaf", factory |-> "check_condition",
     leaf |-> ConditionChecker(exp1, exp2, operator), children |-> <<>>]

CondOp == {"SuperiorStrict", "InferiorStrict", "Equal", "Superior", "Inferior"}

check_condition(exp1, exp2, operator) ==
    CASE operator = "SuperiorStrict" -> exp1 > exp2
      [] operator = "InferiorStrict" -> exp1 < exp2
      [] operator = "Equal" -> exp1 = exp2
      [] operator = "Superior" -> exp1 >= exp2
      [] operator = "Inferior" -> exp1 <= exp2

\* What the visit of a leaf behaviour does with the context: whether it
\* returned (or panicked), its result and the context it leaves.
Visited_(result, map) == [returned |-> TRUE, result |-> result, map |-> map]

Panicked_(map) == [returned |-> FALSE, result |-> "Failure", map |-> map]

\* ExpressionEvaluator::visit with the variable bound only if it is there.
ExpressionEvaluator_visit_set_value(self, map, checks) ==
    LET result == evaluate_expression_int(map, self.expression, checks)
    IN  IF ~result.returned THEN Panicked_(map)
        ELSE Visited_("Success",
                      Context_set_value(map, self.variable, StoreKind_I64(result.value)).map)

\* ExpressionEvaluator::visit
ExpressionEvaluator_visit(self, map, checks) ==
    LET result == evaluate_expression_int(map, self.expression, checks)
    IN  IF ~result.returned THEN Panicked_(map)
        ELSE Visited_("Success", HashMap_insert(map, self.variable, StoreKind_I64(result.value)))

\* ConditionChecker::visit on a context: both expressions are evaluated, then
\* compared.
ConditionChecker_visit_context(self, map, checks) ==
    LET result_1 == evaluate_expression_int(map, self.exp1, checks)
        result_2 == evaluate_expression_int(map, self.exp2, checks)
    IN  IF ~result_1.returned \/ ~result_2.returned THEN Panicked_(map)
        ELSE Visited_(ConditionChecker_visit(
                          check_condition(result_1.value, result_2.value, self.operator)),
                      map)

\* A PrintText whose visit returns Running.
PrintText_visit_running(self, map) == Visited_("Running", map)

\* PrintText::visit: the text is printed, the context is not used.
PrintText_visit(self, map) == Visited_("Success", map)

\* The boxed behaviour of a leaf, called with the context.
Behaviour_visit(entry, map, checks) ==
    CASE entry.factory = "evaluate_int" -> ExpressionEvaluator_visit(entry.leaf, map, checks)
      [] entry.factory = "check_condition" -> ConditionChecker_visit_context(entry.leaf, map, checks)
      [] entry.factory = "always_running" -> Visited_(always_running, map)
      [] entry.factory = "print_text" -> PrintText_visit(entry.leaf, map)

\* The leaf visits of a log, in the order they happened.
LeafVisits(log, tab) == SelectSeq(log, LAMBDA e : tab[e.id].kind = "Leaf")

\* The leaves of a tick are called one after the other on the same context.
\* Given the log of a tick in which the leaves returned lr, the context is
\* passed through the leaf visits in order: "done" with the context the tick
\* leaves if every leaf computes what lr says, "panic" if a leaf panics after
\* leaves that did, "differs" if lr is not what the leaves compute.
ThreadContext(log, tab, map, checks) ==
    LET visits == LeafVisits(log, tab)
        RECURSIVE Loop(_, _)
        Loop(k, m) ==
            IF k > Len(visits) THEN [status |-> "done", map |-> m]
            ELSE LET did == Behaviour_visit(tab[visits[k].id], m, checks)
                 IN  IF ~did.returned THEN [status |-> "panic", map |-> m]
                     ELSE IF did.result # visits[k].res THEN [status |-> "differs", map |-> m]
                     ELSE Loop(k + 1, did.map)
    IN  Loop(1, map)

\* The expressions of the evaluate_int leaves: the sum of two constants, a
\* doubling, a quotient of two variables, a division by zero.
LeafExpressions ==
    {<<Constant(1), Constant(2), Op("Plus")>>,
     <<Variable("x"), Variable("x"), Op("Plus")>>,
     <<Variable("forty_two"), Variable("two"), Op("Divide")>>,
     <<Constant(2), Constant(0), Op("Divide")>>}

ResultVariables == {"x", "text"}

\* An evaluate_int leaf alone, sequence { evaluate_int(e into v),
\* check_condition(v op 3) }, and trees in which the condition on x is checked
\* before x is evaluated.
StandardTrees ==
    {EvaluateIntFactory(e, v) : e \in LeafExpressions, v \in ResultVariables}
    \cup {new_sequence(<<EvaluateIntFactory(e, v),
                         CheckConditionFactory(<<Variable(v)>>, <<Constant(3)>>, op)>>) :
            e \in LeafExpressions, v \in ResultVariables, op \in CondOp}
    \cup {new_selector(<<CheckConditionFactory(<<Variable("x")>>, <<Constant(3)>>, "Equal"),
                         EvaluateIntFactory(e, "x")>>) : e \in LeafExpressions}
    \cup {new_sequence(<<CheckConditionFactory(<<Variable("x")>>, <<Constant(3)>>, "Inferior"),
                         EvaluateIntFactory(e, "x"), AlwaysRunningFactory>>) :
            e \in LeafExpressions}

\* The contexts the trees start with: x absent, x an integer, x a string.
StartContexts ==
    {TestContext,
     HashMap_insert(TestContext, "x", StoreKind_I64(1)),
     HashMap_insert(TestContext, "x", StoreKind_String(<<"a">>))}

InitLeaves ==
    /\ factories \in {<<t>> : t \in StandardTrees}
    /\ tables = <<NodeTable(factories[1])>>
    /\ trees = <<TreeFactory_instanciate(factories[1])>>
    /\ flats = <<TreeFactory_optimize(factories[1])>>
    /\ recLog = <<(<<>>)>>
    /\ optLog = <<(<<>>)>>
    /\ recSeen = <<[v \in 1..TreeSize(factories[1]) |-> NeverSeen]>>
    /\ optSeen = recSeen
    /\ behaviours = <<MintBoth(factories[1], 0)>>
    /\ minted = 2 * NumLeaves(factories[1])
    /\ last = [op |-> "build", slots |-> {1}]
    /\ overflow_checks \in BOOLEAN
    /\ \E map \in StartContexts :
         contexts = [rt \in {"rec", "opt"} |->
                        [map |-> map, before |-> map, panicked |-> FALSE]]
    /\ expression = NotRun /\ evaluated = NotRun
    /\ ParseIdle
    /\ StoreIdle
    /\ LexIdle /\ CallIdle /\ DriveIdle

\* What the leaves of the tree can be guessed to return in a tick.
StandardLeafResults ==
    [LeavesOf(factories[1], "evaluate_int") \cup LeavesOf(factories[1], "check_condition")
        -> VisitResult]

\* One visit of the instance of a runtime against its context: the visit in
\* which the leaves return what they compute from the context as the leaves
\* before them left it.
VisitOn(rt, visit, running) ==
    LET seen == IF rt = "rec" THEN recSeen[1] ELSE optSeen[1]
        did == ThreadContext(visit.log, tables[1], contexts[rt].map, overflow_checks)
    IN  IF contexts[rt].panicked
        THEN [status |-> "panic", log |-> <<>>, seen |-> seen, context |-> contexts[rt]]
        ELSE [status |-> did.status, log |-> visit.log,
              seen |-> SeenAfter(seen, tables[1], visit.log, running),
              context |-> [map |-> did.map, before |-> contexts[rt].map,
                           panicked |-> did.status = "panic"]]

\* One iteration of the driver over the instance of each runtime that has not
\* panicked.
TickLeaves ==
    /\ \E rt \in {"rec", "opt"} : ~contexts[rt].panicked
    /\ \E lrRec \in StandardLeafResults :
       \E rec \in {Tree_visit(trees[1], lrRec)} :
       \E onRec \in {VisitOn("rec", rec, Tree_running(trees[1]))} :
         /\ onRec.status # "differs"
         /\ trees' = IF onRec.status = "done" THEN <<rec.node>> ELSE trees
         /\ recLog' = IF onRec.status = "done" THEN <<onRec.log>> ELSE recLog
         /\ recSeen' = IF onRec.status = "done" THEN <<onRec.seen>> ELSE recSeen
         /\ \E lrOpt \in StandardLeafResults :
            \E opt \in {OptimizedTree_visit(flats[1], lrOpt)} :
            \E onOpt \in {VisitOn("opt", opt, OptimizedTree_running(flats[1]))} :
              /\ onOpt.status # "differs"
              /\ flats' = IF onOpt.status = "done" THEN <<opt.flat>> ELSE flats
              /\ optLog' = IF onOpt.status = "done" THEN <<onOpt.log>> ELSE optLog
              /\ optSeen' = IF onOpt.status = "done" THEN <<onOpt.seen>> ELSE optSeen
              /\ contexts' = [rec |-> onRec.context, opt |-> onOpt.context]
    /\ last' = [op |-> "visit", slots |-> {1}]
    /\ UNCHANGED <<factories, tables, behaviours, minted, parseVars, storeVars, evalVars,
                   lexVars, callVars, driveVars>>

NextLeaves == TickLeaves

SpecLeaves == InitLeaves /\ [][NextLeaves]_vars

\* ------------------------------------------------- lexer (parser/lexer.rs)
\* A character is a string of length one; the superscript two, which is
\* numeric and not a decimal digit, is named by its code point.
Quote == "\""

Backslash == "\\"

NewlineChar == "\n"

TabChar == "\t"

SuperscriptTwo == "U+00B2"

\* char::is_alphabetic, char::is_numeric, char::is_whitespace on the
\* characters of the inputs.
Alphabetic ==
    {"a", "b", "c", "e", "i", "l", "n", "o", "p", "q", "r", "s", "t", "u", "v", "y", "S"}

DecimalDigits == {"0", "1", "2", "3", "4", "5", "6", "7", "8", "9"}

Numeric == DecimalDigits \cup {SuperscriptTwo}

Whitespace == {" ", NewlineChar, TabChar}

Punctuation == {"{", "}", ",", ":", "(", ")", "[", "]", "+", "*", "/"}

AllChars ==
    Alphabetic \cup Numeric \cup Whitespace \cup Punctuation
        \cup {"-", "_", "#", Quote, Backslash}

\* is_valid_id
is_valid_id == Alphabetic \cup Numeric \cup {"_"}

\* enum Token: the variant and what it carries.
Token(kind, value) == [kind |-> kind, value |-> value]

\* Memory::new
Memory_new == [pos |-> 0, last_item |-> None, rewind |-> FALSE, panicked |-> FALSE]

\* A next() that forgets the rewound item: the rewind is cleared and a fresh
\* item is taken from the inner iterator.
Memory_next_forgetting(input, m) ==
    LET item == IF m.pos < Len(input) THEN Some(input[m.pos + 1]) ELSE None
    IN  [memory |-> [m EXCEPT !.pos = IF item = None THEN m.pos ELSE m.pos + 1,
                              !.last_item = item, !.rewind = FALSE],
         item |-> item]

\* Iterator::next for Memory over the characters of input; pos is the number
\* of characters taken from the inner iterator.
Memory_next(input, m) ==
    IF ~m.rewind
    THEN LET item == IF m.pos < Len(input) THEN Some(input[m.pos + 1]) ELSE None
         IN  [memory |-> [m EXCEPT !.pos = IF item = None THEN m.pos ELSE m.pos + 1,
                                   !.last_item = item],
              item |-> item]
    ELSE [memory |-> [m EXCEPT !.rewind = FALSE], item |-> m.last_item]

\* Memory::rewind
Memory_rewind(m) ==
    IF ~m.rewind THEN [m EXCEPT !.rewind = TRUE] ELSE [m EXCEPT !.panicked = TRUE]

\* by_ref().take_while(|c| c in allowed): items are taken until one is not
\* allowed or the iterator ends; that last item is taken from the iterator
\* too.
take_while(input, m, allowed) ==
    LET RECURSIVE Loop(_, _)
        Loop(mm, acc) ==
            LET n == Memory_next(input, mm)
            IN  IF n.item # None /\ n.item[1] \in allowed
                THEN Loop(n.memory, Append(acc, n.item[1]))
                ELSE [memory |-> n.memory, taken |-> acc]
    IN  Loop(m, <<>>)

\* consume_whitespace that does not give back the character that ended the
\* whitespace.
consume_whitespace_no_rewind(input, m) == take_while(input, m, Whitespace).memory

\* Tokenizer::consume_whitespace
consume_whitespace(input, m) == Memory_rewind(take_while(input, m, Whitespace).memory)

\* parse_word that does not rewind after the word.
parse_word_no_rewind(input, m) ==
    LET word == take_while(input, m, is_valid_id)
    IN  [memory |-> word.memory, token |-> Token("Ident", word.taken)]

\* Tokenizer::parse_word
parse_word(input, m) ==
    LET word == take_while(input, m, is_valid_id)
        token == CASE word.taken = <<"t", "r", "e", "e">> -> Token("Root", <<>>)
                   [] word.taken = <<"s", "u", "b", "t", "r", "e", "e">> -> Token("Subtree", <<>>)
                   [] word.taken = <<"s", "e", "l", "e", "c", "t", "o", "r">> -> Token("Selector", <<>>)
                   [] word.taken = <<"s", "e", "q", "u", "e", "n", "c", "e">> -> Token("Sequence", <<>>)
                   [] word.taken = <<"i", "n", "v", "e", "r", "t", "e", "r">> -> Token("Inverter", <<>>)
                   [] word.taken = <<"p", "r", "i", "o", "r", "i", "t", "y">> -> Token("Priority", <<>>)
                   [] OTHER -> Token("Ident", word.taken)
    IN  [memory |-> Memory_rewind(word.memory), token |-> token]

\* The value of a decimal digit.
DigitValue(c) == CHOOSE d \in 0..9 : ToString(d) = c

\* i64::from_str_radix(digits, 10): an error if a character is not a decimal
\* digit or the number does not fit in i64.
from_str_radix(digits) ==
    LET RECURSIVE Loop(_, _)
        Loop(k, n) ==
            IF k > Len(digits) THEN Ok(n)
            ELSE IF digits[k] \notin DecimalDigits THEN Err(<<"invalid digit found in string">>)
            ELSE IF 10 * n + DigitValue(digits[k]) > i64_MAX
            THEN Err(<<"number too large to fit in target type">>)
            ELSE Loop(k + 1, 10 * n + DigitValue(digits[k]))
    IN  IF digits = <<>> THEN Err(<<"cannot parse integer from empty string">>)
        ELSE Loop(1, 0)

\* Tokenizer::parse_number: unwrap() panics on an error (returned is FALSE).
parse_number(input, m) ==
    LET number_str == take_while(input, m, Numeric)
        number == from_str_radix(number_str.taken)
    IN  [memory |-> Memory_rewind(number_str.memory), returned |-> number.ok,
         value |-> IF number.ok THEN number.value ELSE 0]

\* The character pushed for an escaped character.
Escaped(c) ==
    CASE c = Backslash -> Backslash
      [] c = "n" -> NewlineChar
      [] c = Quote -> Quote
      [] c = "t" -> TabChar
      [] OTHER -> c

\* parse_quoted_string in which a backslash is a character like the others.
parse_quoted_string_no_escape(input, m) ==
    LET run == take_while(input, m, AllChars \ {Quote})
    IN  [memory |-> run.memory,
         result |-> IF run.memory.last_item = None
                    THEN Err(<<"Lexer error: unfinished quoted string">>)
                    ELSE Ok(Token("QuotedString", run.taken))]

\* Tokenizer::parse_quoted_string, called after the opening quote.
parse_quoted_string(input, m) ==
    LET RECURSIVE Loop(_, _)
        Loop(mm, res) ==
            LET run == take_while(input, mm, AllChars \ {Quote, Backslash})
                previous == run.memory.last_item
            IN  CASE previous = Some(Backslash) ->
                       LET n == Memory_next(input, run.memory)
                       IN  IF n.item = None
                           THEN [memory |-> n.memory,
                                 result |-> Err(<<"Lexer error: unfinished quoted string during escape sequence">>)]
                           ELSE Loop(n.memory, Append(res \o run.taken, Escaped(n.item[1])))
                  [] previous = None ->
                       [memory |-> run.memory,
                        result |-> Err(<<"Lexer error: unfinished quoted string">>)]
                  [] OTHER ->
                       [memory |-> run.memory,
                        result |-> Ok(Token("QuotedString", res \o run.taken))]
    IN  Loop(m, <<>>)

\* The token of a punctuation character.
PunctuationToken(c) ==
    CASE c = "{" -> "LeftBracket" [] c = "}" -> "RightBracket" [] c = "," -> "Comma"
      [] c = ":" -> "Colon" [] c = "(" -> "LeftParenthesis" [] c = ")" -> "RightParenthesis"
      [] c = "[" -> "LeftArray" [] c = "]" -> "RightArray" [] c = "+" -> "Plus"
      [] c = "*" -> "Multiply" [] c = "/" -> "Divide"

\* What a call of Tokenizer::next gives: None, Some(Ok(token)), Some(Err(e)),
\* or a panic.
Item(kind, value) == [kind |-> kind, value |-> value]

\* The arm of '-' in Tokenizer::next.
minus_arm(input, m) ==
    LET n == Memory_next(input, m)
    IN  IF n.item # None /\ n.item[1] \in Numeric
        THEN LET number == parse_number(input, Memory_rewind(n.memory))
             IN  [memory |-> number.memory,
                  item |-> IF number.returned
                           THEN Item("Ok", Token("Integer", -number.value))
                           ELSE Item("panic", <<>>)]
        ELSE [memory |-> Memory_rewind(n.memory), item |-> Item("Ok", Token("Minus", <<>>))]

\* Iterator::next for Tokenizer
Tokenizer_next(input, m) ==
    LET start == consume_whitespace(input, m)
        n == Memory_next(input, start)
        next == n.item[1]
        did ==
            CASE n.item = None -> [memory |-> n.memory, item |-> Item("None", <<>>)]
              [] n.item # None /\ next \in Punctuation ->
                   [memory |-> n.memory, item |-> Item("Ok", Token(PunctuationToken(next), <<>>))]
              [] n.item # None /\ next \in Alphabetic ->
                   LET word == parse_word(input, Memory_rewind(n.memory))
                   IN  [memory |-> word.memory, item |-> Item("Ok", word.token)]
              [] n.item # None /\ next = Quote ->
                   LET string == parse_quoted_string(input, n.memory)
                   IN  [memory |-> string.memory,
                        item |-> Item(IF string.result.ok THEN "Ok" ELSE "Err", string.result.value)]
              [] n.item # None /\ next \in Numeric ->
                   LET number == parse_number(input, Memory_rewind(n.memory))
                   IN  [memory |-> number.memory,
                        item |-> IF number.returned THEN Item("Ok", Token("Integer", number.value))
                                 ELSE Item("panic", <<>>)]
              [] n.item # None /\ next = "-" -> minus_arm(input, n.memory)
              [] OTHER ->
                   [memory |-> n.memory, item |-> Item("Err", <<"Unrecognized character ", next>>)]
    IN  IF did.memory.panicked THEN [did EXCEPT !.item = Item("panic", <<>>)] ELSE did

\* The longest generated input.
MaxChars == 3

\* The characters of the generated inputs.
LexAlphabet == {"a", "_", "1", "-", " ", "#", Quote, Backslash, SuperscriptTwo}

\* The decimal digits of a positive number.
RECURSIVE Digits(_)
Digits(n) == IF n < 10 THEN <<ToString(n)>> ELSE Append(Digits(n \div 10), ToString(n % 10))

\* Inputs of the documentation and of the grammar: expressions, reserved
\* words and words close to them, the extreme integers, escapes.
TestInputs ==
    {<<"[", "1", ",", "-", "2", ",", "+", "]">>,
     <<"t", "r", "e", "e">>, <<"t", "r", "e", "e", "s">>, <<"t", "r", "e", "e", "_", "1">>,
     <<"t", "r", "e", "e", "{">>,
     <<"s", "u", "b", "t", "r", "e", "e">>, <<"s", "e", "l", "e", "c", "t", "o", "r">>,
     <<"s", "e", "q", "u", "e", "n", "c", "e">>, <<"S", "e", "q", "u", "e", "n", "c", "e">>,
     <<"p", "r", "i", "o", "r", "i", "t", "y">>, <<"i", "n", "v", "e", "r", "t", "e", "r">>,
     <<"-">> \o Digits(-i64_MIN), Digits(i64_MAX), <<"-">> \o Digits(i64_MAX),
     <<"1", "-", "1">>, <<"-", "0">>, <<"-", "-", "1">>,
     <<Quote, "a", Backslash, "n", Backslash, "t", Backslash, Quote, Backslash, Backslash, Quote, "a">>,
     <<Quote, Backslash, "a", Quote, "(">>}

LexInputs ==
    UNION {[1..n -> LexAlphabet] : n \in 0..MaxChars} \cup TestInputs

InitLex ==
    /\ chars \in LexInputs
    /\ memory = Memory_new
    /\ emitted = <<>>
    /\ TreesIdle
    /\ ParseIdle /\ StoreIdle /\ EvalIdle /\ contexts = NotRun /\ CallIdle /\ DriveIdle

\* The position in the input of the character the next call of next() on the
\* Memory gives (one past the end if it gives None).
Unread(m) == IF m.rewind /\ m.last_item # None THEN m.pos ELSE m.pos + 1

\* The number of calls made after the iterator has returned None.
MaxEnds == 2

\* One call of next() on the Tokenizer, unless a call has panicked; the
\* iterator is called again after an error and, up to MaxEnds times, after
\* it has returned None.  With the item, emitted records the first unread
\* position before the call and after it.
NextToken ==
    /\ IF emitted = <<>> THEN TRUE
       ELSE /\ emitted[Len(emitted)].kind # "panic"
            /\ Cardinality({k \in DOMAIN emitted : emitted[k].kind = "None"}) <= MaxEnds
    /\ \E did \in {Tokenizer_next(chars, memory)} :
         /\ memory' = did.memory
         /\ emitted' = Append(emitted, [kind |-> did.item.kind, value |-> did.item.value,
                                        from |-> Unread(memory), upto |-> Unread(did.memory)])
    /\ UNCHANGED <<chars, treeVars, parseVars, storeVars, evalVars, contexts, callVars,
                   driveVars>>

NextLex == NextToken

SpecLex == InitLex /\ [][NextLex]_vars

\* ------------------------------------------------ calls of the library
\* Value::Map, Value::Array, Value::Operator and Value::Unknown.  A map is a
\* function from its keys, an array a sequence, a char the one-character
\* string.
Value_Map(map) == [kind |-> "Map", value |-> map]

Value_Array(array) == [kind |-> "Array", value |-> array]

Value_Operator(operator) == [kind |-> "Operator", value |-> operator]

Value_Unknown(char) == [kind |-> "Unknown", value |-> char]

\* HashMap::get
HashMap_get(map, k) == IF k \in DOMAIN map THEN Some(map[k]) ELSE None

\* A lookup over a slice that keeps looking after a hit and returns the last.
Gettable_get_last_hit(layers, k) ==
    LET RECURSIVE Loop(_, _)
        Loop(i, found) ==
            IF i > Len(layers) THEN found
            ELSE LET value == HashMap_get(layers[i], k)
                 IN  Loop(i + 1, IF value # None THEN value ELSE found)
    IN  Loop(1, None)

\* Gettable for [T]: the elements are asked in order, the first Some is
\* returned; None if the loop ends.
Gettable_get(layers, k) ==
    LET RECURSIVE Loop(_)
        Loop(i) ==
            IF i > Len(layers) THEN None
            ELSE LET value == HashMap_get(layers[i], k)
                 IN  IF value # None THEN value ELSE Loop(i + 1)
    IN  Loop(1)

\* A translation that leaves out the elements that are no operands.
generate_postfixed_expression_skipping(array) ==
    LET RECURSIVE Loop(_, _)
        Loop(k, expression_) ==
            IF k > Len(array) THEN Ok(expression_)
            ELSE CASE array[k].kind = "String" ->
                          Loop(k + 1, Append(expression_, Variable(array[k].value)))
                   [] array[k].kind = "Integer" ->
                          Loop(k + 1, Append(expression_, Constant(array[k].value)))
                   [] array[k].kind = "Operator" ->
                          Loop(k + 1, Append(expression_, Op(array[k].value)))
                   [] OTHER -> Loop(k + 1, expression_)
    IN  Loop(1, <<>>)

\* generate_postfixed_expression: one member pushed per element, in order; the
\* first element that is no String, Integer or Operator ends the call with an
\* error.
generate_postfixed_expression(array) ==
    LET RECURSIVE Loop(_, _)
        Loop(k, expression_) ==
            IF k > Len(array) THEN Ok(expression_)
            ELSE CASE array[k].kind = "String" ->
                          Loop(k + 1, Append(expression_, Variable(array[k].value)))
                   [] array[k].kind = "Integer" ->
                          Loop(k + 1, Append(expression_, Constant(array[k].value)))
                   [] array[k].kind = "Operator" ->
                          Loop(k + 1, Append(expression_, Op(array[k].value)))
                   [] OTHER -> Err(<<"Expected operand, found ", array[k]>>)
    IN  Loop(1, <<>>)

\* The match on the value of the key exp1 or exp2 in check_condition_node.
operands_of(options_map, key) ==
    LET found == HashMap_get(options_map, key)
    IN  IF found = None THEN Err(<<"Expected value for key ", key>>)
        ELSE IF found[1].kind = "Array" THEN generate_postfixed_expression(found[1].value)
        ELSE Err(<<"Expected array of operands, found ", found[1]>>)

\* The match on the value of the key operator in check_condition_node.
operator_of(options_map) ==
    LET found == HashMap_get(options_map, "operator")
    IN  IF found = None THEN Err(<<"Expected value for key operator">>)
        ELSE LET op == found[1].value
             IN  CASE found[1].kind = "Unknown" ->
                          (CASE op = ">" -> Ok("SuperiorStrict")
                             [] op = "<" -> Ok("InferiorStrict")
                             [] op = "=" -> Ok("Equal")
                             [] OTHER -> Err(<<"Expected operator, found ", op>>))
                   [] found[1].kind = "String" ->
                          (CASE op = ">" -> Ok("SuperiorStrict")
                             [] op = "<" -> Ok("InferiorStrict")
                             [] op = "=" -> Ok("Equal")
                             [] op = ">=" -> Ok("Superior")
                             [] op = "<=" -> Ok("Inferior")
                             [] OTHER -> Err(<<"Expected operator, found ", op>>))
                   [] OTHER -> Err(<<"Expected operator, found ", found[1]>>)

\* check_condition_node that takes any operator it does not know for "=".
check_condition_node_any_operator(options) ==
    IF options = None THEN Err(<<"Expected hashmap, found ", options>>)
    ELSE IF options[1].kind # "Map" THEN Err(<<"Expected hashmap, found ", options>>)
    ELSE LET exp1 == operands_of(options[1].value, "exp1")
             exp2 == operands_of(options[1].value, "exp2")
             operator == operator_of(options[1].value)
         IN  IF ~exp1.ok THEN exp1
             ELSE IF ~exp2.ok THEN exp2
             ELSE Ok([factory |-> "check_condition",
                      leaf |-> ConditionChecker(exp1.value, exp2.value,
                                                IF operator.ok THEN operator.value ELSE "Equal")])

\* check_condition_node: the options are a map; exp1, exp2, operator are
\* matched in this order and the first error is returned; else the factory of
\* LeafNodes around a ConditionChecker.
check_condition_node(options) ==
    IF options = None THEN Err(<<"Expected hashmap, found ", options>>)
    ELSE IF options[1].kind # "Map" THEN Err(<<"Expected hashmap, found ", options>>)
    ELSE LET exp1 == operands_of(options[1].value, "exp1")
             exp2 == operands_of(options[1].value, "exp2")
             operator == operator_of(options[1].value)
         IN  IF ~exp1.ok THEN exp1
             ELSE IF ~exp2.ok THEN exp2
             ELSE IF ~operator.ok THEN operator
             ELSE Ok([factory |-> "check_condition",
                      leaf |-> ConditionChecker(exp1.value, exp2.value, operator.value)])

\* The largest number of elements of an array handed to
\* generate_postfixed_expression, and of layers of a lookup.
MaxElements == 3

MaxLayers == 3

\* The elements of the arrays: operands of each kind and a value of each kind
\* that is no operand.
ArrayElements ==
    {Value_String("x"), Value_Integer(1), Value_Integer(2), Value_Operator("Plus"),
     Value_Operator("Multiply"), Value_Unknown(">"), Value_Array(<<>>), Value_Map(HashMap_new)}

\* The arrays: up to MaxElements elements, and [1, 2, +, *], whose operators
\* find too few operands.
WrongArity ==
    <<Value_Integer(1), Value_Integer(2), Value_Operator("Plus"), Value_Operator("Multiply")>>

Arrays == UNION {[1..n -> ArrayElements] : n \in 0..MaxElements} \cup {WrongArity}

\* The layers of a lookup: maps from some of the keys a, b to 1 or 2.
Layers ==
    LET maps == UNION {[keys -> {1, 2}] : keys \in SUBSET {"a", "b"}}
    IN  UNION {[1..n -> maps] : n \in 0..MaxLayers}

\* The options of check_condition: no value, a value that is no map, a map
\* in which each of exp1, exp2 is absent, an array of operands (3, x, x + two,
\* nothing), an array with an element that is no operand, or no array, and
\* operator is absent, a char, a string, or an integer.
ConditionOptions ==
    LET operands == {Value_Array(<<Value_Integer(3)>>),
                     Value_Array(<<Value_String("x")>>),
                     Value_Array(<<Value_String("x"), Value_String("two"),
                                   Value_Operator("Plus")>>),
                     Value_Array(<<>>),
                     Value_Array(<<Value_Unknown(">")>>),
                     Value_Integer(1)}
        operators == {Value_Unknown(c) : c \in {">", "<", "=", "!"}}
                     \cup {Value_String(c) : c \in {">", "<", "=", ">=", "<=", "=="}}
                     \cup {Value_Integer(1)}
        entries(key, values) == {HashMap_new} \cup {HashMap_insert(HashMap_new, key, v) : v \in values}
    IN  {None, Some(Value_Integer(1))}
        \cup {Some(Value_Map(e1 @@ e2 @@ o)) :
                e1 \in entries("exp1", operands), e2 \in entries("exp2", operands),
                o \in entries("operator", operators)}

\* The sources whose one tree is a print_text leaf, by the argument of the
\* leaf: a string, no argument, a value of another kind.
PrintTextSources ==
    LET options == {Some(Value_String(<<"a", "_", "b">>)), Some(Value_String(<<"_", "_">>)),
                    Some(Value_String(<<"a", " ", "b">>)), Some(Value_String(<<>>)),
                    None, Some(Value_Integer(1)), Some(Value_Array(<<>>)),
                    Some(Value_Map(HashMap_new)), Some(Value_Operator("Plus")),
                    Some(Value_Unknown("_"))}
    IN  {[grammar |-> Ok(<<[name |-> "t1", root |-> Node_Leaf("print_text", o)]>>)] :
            o \in options}

\* The call has not returned.
NotCalled == [called |-> FALSE, returned |-> None]

Returned(r) == [called |-> TRUE, returned |-> r]

\* The context an instance is visited with, before any visit.
FreshContext(map) == [map |-> map, before |-> map, panicked |-> FALSE]

InitCalls ==
    /\ \/ /\ apiCall \in {[api |-> "get", args |-> <<layers, k>>] :
                              layers \in Layers, k \in {"a", "b"}}
          /\ contexts = FreshContext(TestContext)
          /\ overflow_checks = FALSE
       \/ /\ apiCall \in {[api |-> "generate_postfixed_expression", args |-> <<array>>] :
                              array \in Arrays}
          /\ contexts = FreshContext(TestContext)
          /\ overflow_checks = FALSE
       \/ /\ apiCall \in {[api |-> "check_condition_node", args |-> <<options>>] :
                              options \in ConditionOptions}
          /\ contexts \in {FreshContext(map) : map \in StartContexts}
          /\ overflow_checks \in BOOLEAN
       \/ /\ apiCall \in {[api |-> "parse", args |-> <<input, LeavesCollection_standard>>] :
                              input \in PrintTextSources}
          /\ contexts \in {FreshContext(map) : map \in StartContexts}
          /\ overflow_checks = FALSE
    /\ apiResult = NotCalled
    /\ TreesIdle
    /\ ParseIdle /\ StoreIdle /\ LexIdle /\ DriveIdle
    /\ expression = NotRun /\ evaluated = NotRun

\* [T]::get(k) on a slice of maps
Get ==
    /\ apiCall.api = "get" /\ ~apiResult.called
    /\ apiResult' = Returned(Gettable_get(apiCall.args[1], apiCall.args[2]))
    /\ UNCHANGED <<apiCall, treeVars, parseVars, storeVars, evalVars, contexts, lexVars,
                   driveVars>>

\* expressions::generate_postfixed_expression(&array)
GeneratePostfixedExpression ==
    /\ apiCall.api = "generate_postfixed_expression" /\ ~apiResult.called
    /\ apiResult' = Returned(generate_postfixed_expression(apiCall.args[1]))
    /\ UNCHANGED <<apiCall, treeVars, parseVars, storeVars, evalVars, contexts, lexVars,
                   driveVars>>

\* conditions::check_condition_node(&options)
CheckConditionNode ==
    /\ apiCall.api = "check_condition_node" /\ ~apiResult.called
    /\ apiResult' = Returned(check_condition_node(apiCall.args[1]))
    /\ UNCHANGED <<apiCall, treeVars, parseVars, storeVars, evalVars, contexts, lexVars,
                   driveVars>>

\* behaviour_tree::parse(TREE, &leaves) of a source with a print_text leaf
ParsePrintText ==
    /\ apiCall.api = "parse" /\ ~apiResult.called
    /\ apiResult' = Returned(parse(apiCall.args[1], apiCall.args[2]))
    /\ UNCHANGED <<apiCall, treeVars, parseVars, storeVars, evalVars, contexts, lexVars,
                   driveVars>>

\* The node factory of the leaf a call returned: the root of the first
\* TreeFactory of parse, the leaf around the factory of check_condition_node.
ReturnedFactory ==
    IF apiCall.api = "parse" THEN apiResult.returned.value[1].root
    ELSE new_leaf(apiResult.returned.value)

\* instanciate() of the factory a call returned, once.
InstanciateReturned ==
    /\ apiCall.api \in {"parse", "check_condition_node"}
    /\ apiResult.called
    /\ apiResult.returned.ok
    /\ trees = <<>>
    /\ trees' = <<TreeFactory_instanciate(ReturnedFactory)>>
    /\ last' = [op |-> "instanciate", slots |-> {1}]
    /\ UNCHANGED <<factories, tables, flats, recLog, optLog, recSeen, optSeen, behaviours,
                   minted, stdVars>>

\* instance.visit(&mut context): the root is a leaf, whose behaviour is called
\* with the context; a panic ends the visits.
VisitReturned ==
    /\ apiCall.api \in {"parse", "check_condition_node"}
    /\ trees # <<>>
    /\ ~contexts.panicked
    /\ \E did \in {Behaviour_visit(trees[1], contexts.map, overflow_checks)} :
         /\ contexts' = [map |-> did.map, before |-> contexts.map, panicked |-> ~did.returned]
         /\ IF ~did.returned THEN UNCHANGED <<trees, recLog>>
            ELSE \E rec \in {Tree_visit(trees[1], [l \in {trees[1].leaf} |-> did.result])} :
                   /\ trees' = <<rec.node>>
                   /\ recLog' = <<rec.log>>
    /\ last' = [op |-> "visit", slots |-> {1}]
    /\ UNCHANGED <<factories, tables, flats, optLog, recSeen, optSeen, behaviours, minted,
                   parseVars, storeVars, evalVars, lexVars, callVars, driveVars>>

NextCalls ==
    \/ Get
    \/ GeneratePostfixedExpression
    \/ CheckConditionNode
    \/ ParsePrintText
    \/ InstanciateReturned
    \/ VisitReturned

SpecCalls == InitCalls /\ [][NextCalls]_vars

\* ------------------------------------------------- the driver (main.rs)
\* The largest number of times in a row a leaf returns Running.
MaxRunning == 2

\* A node of the kind is in the factory tree.
RECURSIVE HasKind(_, _)
HasKind(f, kind) ==
    IF f.kind = kind THEN TRUE
    ELSE \E j \in 1..Len(f.children) : HasKind(f.children[j], kind)

\* The trees the driver runs: the trees of up to MaxNodes nodes without
\* priority nodes, and
\*   sequence { selector { l3, l4 }, inverter { l6 } }
\*   selector { sequence { l3, l4 }, l5 }
\*   inverter { sequence { inverter { l4 }, l5 } }
DriveTrees ==
    {t \in GeneratedTrees : ~HasKind(t, "Priority")}
    \cup { new_sequence(<<new_selector(<<LeafFactory(3), LeafFactory(4)>>),
                          new_inverter(LeafFactory(6))>>),
           new_selector(<<new_sequence(<<LeafFactory(3), LeafFactory(4)>>), LeafFactory(5)>>),
           new_inverter(new_sequence(<<new_inverter(LeafFactory(4)), LeafFactory(5)>>)) }

\* The visits after which the loop has ended at the latest: every visit
\* but the last returns Running, and in each of those a leaf returns Running.
MaxVisits(f) == NumLeaves(f) * MaxRunning + 1

\* let mut instance = tree.optimize(); let mut i = 0usize: one fresh
\* OptimizedTree; no leaf has returned anything; last.i is the number of
\* visits made.
InitDrive ==
    /\ factories \in {<<t>> : t \in DriveTrees}
    /\ tables = <<NodeTable(factories[1])>>
    /\ trees = <<>>
    /\ flats = <<TreeFactory_optimize(factories[1])>>
    /\ recLog = <<>>
    /\ optLog = <<(<<>>)>>
    /\ recSeen = <<>>
    /\ optSeen = <<[v \in 1..TreeSize(factories[1]) |-> NeverSeen]>>
    /\ behaviours = <<[opt |-> LeafNodeFactory_call(factories[1], 0)]>>
    /\ minted = NumLeaves(factories[1])
    /\ last = [op |-> "build", slots |-> {1}, i |-> 0]
    /\ streaks = [l \in LeavesOf(factories[1], "user") |-> 0]
    /\ ParseIdle /\ StoreIdle /\ EvalIdle /\ contexts = NotRun /\ LexIdle /\ CallIdle

\* The leaf visits of a log that gave the result.
LeafEventsWith(log, res) ==
    {k \in DOMAIN log : tables[1][log[k].id].kind = "Leaf" /\ log[k].res = res}

\* The leaves a log visited.
LeavesIn(log) ==
    {tables[1][log[k].id].leaf : k \in {j \in DOMAIN log : tables[1][log[j].id].kind = "Leaf"}}

\* The condition of the loop: no visit was made or the latest returned
\* Running.  The count of visits is capped at MaxVisits.
Looping ==
    /\ IF optLog[1] = <<>> THEN TRUE ELSE optLog[1][Len(optLog[1])].res = "Running"
    /\ last.i < MaxVisits(factories[1])

\* while instance.visit(&mut context) == VisitResult::Running { i = i + 1 }:
\* one more visit of the instance, the first one or one after a visit that
\* returned Running.  The context makes the leaves return lr; no leaf returns
\* Running more than MaxRunning times in a row.
Drive ==
    /\ Looping
    /\ \E lr \in LeafResults :
       \E opt \in {OptimizedTree_visit(flats[1], lr)} :
         /\ \A k \in LeafEventsWith(opt.log, "Running") :
               streaks[tables[1][opt.log[k].id].leaf] < MaxRunning
         /\ flats' = <<opt.flat>>
         /\ optLog' = <<opt.log>>
         /\ optSeen' = <<SeenAfter(optSeen[1], tables[1], opt.log,
                                   OptimizedTree_running(flats[1]))>>
         /\ streaks' = [l \in DOMAIN streaks |->
                           IF l \notin LeavesIn(opt.log) THEN streaks[l]
                           ELSE IF lr[l] = "Running" THEN streaks[l] + 1 ELSE 0]
    /\ last' = [op |-> "visit", slots |-> {1}, i |-> last.i + 1]
    /\ UNCHANGED <<factories, tables, trees, recLog, recSeen, behaviours, minted,
                   parseVars, storeVars, evalVars, contexts, lexVars, callVars>>

NextDrive == Drive

SpecDrive == InitDrive /\ [][NextDrive]_vars

\* What every step of the loop does to the count of visits.  A step of
\* Iteration is a step of Drive, and Iteration is enabled in the states in
\* which Drive is: some lr, one without Running, is always allowed.
Iteration ==
    /\ Looping
    /\ last' = [op |-> "visit", slots |-> {1}, i |-> last.i + 1]

\* The loop goes on as long as its condition holds: the process is not
\* stopped between two visits.
SpecDriveFair == SpecDrive /\ WF_last(Iteration)

\* ----------------------------------------------------------------- views
\* The two runtimes: the Tree of instanciate() and the OptimizedTree of
\* optimize().
Runtimes == {"rec", "opt"}

Tab(s) == tables[s]

Log(rt, s) == IF rt = "rec" THEN recLog[s] ELSE optLog[s]

Seen(rt, s) == IF rt = "rec" THEN recSeen[s] ELSE optSeen[s]

\* The running field of the node at position v as it is now.
Running(rt, s, v) ==
    IF rt = "rec" THEN Tree_running(trees[s])[v] ELSE OptimizedTree_running(flats[s])[v]

\* The nodes of kind k that the latest tick visited.
VisitedNodes(rt, s, kinds) ==
    {v \in DOMAIN Tab(s) : Tab(s)[v].kind \in kinds /\ Visited(Log(rt, s), v)}

Last(q) == q[Len(q)]

\* ---------------------------------------------------------------- claims
\* C1. Sequence memory, in both runtimes: if the previous tick of a sequence
\* ended because its n-th child returned Running, the tick of that sequence
\* that follows ticks child n first and ticks none of the children 0..n-1.
SequenceMemory ==
    \A rt \in Runtimes : \A s \in Slots : \A v \in VisitedNodes(rt, s, {"Sequence"}) :
        LET prev == Seen(rt, s)[v].prevRun
            ct == ChildTicks(Log(rt, s), Tab(s), v)
        IN  prev # None =>
                /\ ct # <<>>
                /\ ct[1].idx = prev[1]
                /\ \A k \in DOMAIN ct : ct[k].idx >= prev[1]

\* A sequence whose previous tick ended with Running from a child n >= 1 has
\* been ticked again, in both runtimes.
SequenceMemoryWitness ==
    \E s \in Slots : \A rt \in Runtimes : \E v \in VisitedNodes(rt, s, {"Sequence"}) :
        /\ Seen(rt, s)[v].prevRun # None
        /\ Seen(rt, s)[v].prevRun[1] >= 1

\* C2. Resumption invariant: right after a tick of a sequence or selector
\* returns Success or Failure, in either runtime, its running field is None.
ResumptionInvariant ==
    \A rt \in Runtimes : \A s \in Slots : \A v \in VisitedNodes(rt, s, {"Sequence", "Selector"}) :
        ResultOf(Log(rt, s), v) \in {"Success", "Failure"} => Running(rt, s, v) = None

\* C3. Selector result, in both runtimes: the children are ticked in order
\* from the start index; the selector returns Success at the first child that
\* returns Success, goes on after Failure, returns Running at the first child
\* that returns Running, and returns Failure when every child ticked failed.
SelectorResult ==
    \A rt \in Runtimes : \A s \in Slots : \A v \in VisitedNodes(rt, s, {"Selector"}) :
        LET ct == ChildTicks(Log(rt, s), Tab(s), v)
            res == ResultOf(Log(rt, s), v)
            start == unwrap_or(Seen(rt, s)[v].stored, 0)
        IN  /\ \A k \in DOMAIN ct : ct[k].idx = start + k - 1
            /\ \A k \in 1..(Len(ct) - 1) : ct[k].res = "Failure"
            /\ IF Tab(s)[v].nch = 0
               THEN ct = <<>> /\ res = "Failure"
               ELSE /\ ct # <<>>
                    /\ Last(ct).res = "Success" => res = "Success"
                    /\ Last(ct).res = "Running" => res = "Running"
                    /\ Last(ct).res = "Failure" =>
                           res = "Failure" /\ Last(ct).idx = Tab(s)[v].nch - 1

\* C4. Optimize preserves semantics: ticked with the same leaf results, the
\* OptimizedTree returns what the Tree returns and ticks the same leaves in
\* the same order.
OptimizePreservesSemantics ==
    \A s \in Slots :
        recLog[s] # <<>> =>
            /\ ResultOf(optLog[s], 1) = ResultOf(recLog[s], 1)
            /\ LeafTicks(optLog[s], Tab(s)) = LeafTicks(recLog[s], Tab(s))

\* C5. Sequence result, in both runtimes: the children are ticked in order
\* from the start index (the stored index if present, else 0); the sequence
\* returns Failure at the first child that returns Failure, Running at the
\* first child that returns Running, and Success when every child ticked
\* succeeded; a sequence with no children returns Success.
SequenceResult ==
    \A rt \in Runtimes : \A s \in Slots : \A v \in VisitedNodes(rt, s, {"Sequence"}) :
        LET ct == ChildTicks(Log(rt, s), Tab(s), v)
            res == ResultOf(Log(rt, s), v)
            start == unwrap_or(Seen(rt, s)[v].stored, 0)
        IN  /\ \A k \in DOMAIN ct : ct[k].idx = start + k - 1
            /\ \A k \in 1..(Len(ct) - 1) : ct[k].res = "Success"
            /\ IF Tab(s)[v].nch = 0
               THEN ct = <<>> /\ res = "Success"
               ELSE /\ ct # <<>>
                    /\ Last(ct).res = "Failure" => res = "Failure"
                    /\ Last(ct).res = "Running" => res = "Running"
                    /\ Last(ct).res = "Success" =>
                           res = "Success" /\ Last(ct).idx = Tab(s)[v].nch - 1

\* A sequence resumed at a stored index >= 1 and returned Success, in both
\* runtimes.
SequenceResultWitness ==
    \E s \in Slots : \A rt \in Runtimes : \E v \in VisitedNodes(rt, s, {"Sequence"}) :
        LET ct == ChildTicks(Log(rt, s), Tab(s), v)
        IN  /\ Seen(rt, s)[v].stored # None
            /\ Seen(rt, s)[v].stored[1] >= 1
            /\ ct # <<>>
            /\ ResultOf(Log(rt, s), v) = "Success"

\* C6. Priority amnesia, in both runtimes: every tick of a priority node
\* ticks child 0 first, whatever the previous tick of that node returned.
PriorityAmnesia ==
    \A rt \in Runtimes : \A s \in Slots : \A v \in VisitedNodes(rt, s, {"Priority"}) :
        LET ct == ChildTicks(Log(rt, s), Tab(s), v)
        IN  Tab(s)[v].nch > 0 => ct # <<>> /\ ct[1].idx = 0

\* A priority node whose previous tick ended with Running from a child n >= 1
\* has been ticked again, in both runtimes.
PriorityAmnesiaWitness ==
    \E s \in Slots : \A rt \in Runtimes : \E v \in VisitedNodes(rt, s, {"Priority"}) :
        /\ Seen(rt, s)[v].prevRun # None
        /\ Seen(rt, s)[v].prevRun[1] >= 1

\* C7. Priority result, in both runtimes: a priority node returns the result
\* of the first child from child 0 that returns Running or Failure, ticks no
\* child after it, and returns Success when all children return Success.
PriorityResult ==
    \A rt \in Runtimes : \A s \in Slots : \A v \in VisitedNodes(rt, s, {"Priority"}) :
        LET ct == ChildTicks(Log(rt, s), Tab(s), v)
            res == ResultOf(Log(rt, s), v)
        IN  /\ \A k \in DOMAIN ct : ct[k].idx = k - 1
            /\ \A k \in 1..(Len(ct) - 1) : ct[k].res = "Success"
            /\ IF Tab(s)[v].nch = 0
               THEN ct = <<>> /\ res = "Success"
               ELSE /\ ct # <<>>
                    /\ Last(ct).res \in {"Running", "Failure"} => res = Last(ct).res
                    /\ Last(ct).res = "Success" =>
                           res = "Success" /\ Len(ct) = Tab(s)[v].nch

\* A priority node returned Failure from its first child and left its second
\* child unticked, in both runtimes.
PriorityResultWitness ==
    \E s \in Slots : \A rt \in Runtimes : \E v \in VisitedNodes(rt, s, {"Priority"}) :
        LET ct == ChildTicks(Log(rt, s), Tab(s), v)
        IN  /\ Len(ct) = 1
            /\ Tab(s)[v].nch = 2
            /\ ResultOf(Log(rt, s), v) = "Failure"

\* The result an inverter is to return for a child's result.
Inverse(r) ==
    CASE r = "Success" -> "Failure"
      [] r = "Failure" -> "Success"
      [] r = "Running" -> "Running"

\* C8. Inverter involution, in both runtimes: an inverter returns the inverse
\* of its child's result, Running for Running; so an inverter of an inverter
\* of c returns what c returned in that tick.
InverterInvolution ==
    \A rt \in Runtimes : \A s \in Slots : \A v \in VisitedNodes(rt, s, {"Inverter"}) :
        /\ Visited(Log(rt, s), v + 1)
        /\ ResultOf(Log(rt, s), v) = Inverse(ResultOf(Log(rt, s), v + 1))
        /\ Tab(s)[v + 1].kind = "Inverter" =>
               /\ Visited(Log(rt, s), v + 2)
               /\ ResultOf(Log(rt, s), v) = ResultOf(Log(rt, s), v + 2)

\* An inverter of an inverter was ticked and its grandchild returned Running,
\* in both runtimes.
InverterInvolutionWitness ==
    \E s \in Slots : \A rt \in Runtimes : \E v \in VisitedNodes(rt, s, {"Inverter"}) :
        /\ Tab(s)[v + 1].kind = "Inverter"
        /\ ResultOf(Log(rt, s), v + 2) = "Running"

\* The collection is selector { l1..lk } followed by
\* inverter { sequence { inverter { l1 }..inverter { lk } } }.
IsDualPair ==
    /\ Len(factories) = 2
    /\ \E k \in 1..Len(factories[1].children) :
           factories = <<SelectorOver(k), InvertedSequenceOver(k)>>

\* C9. Selector/sequence duality: over leaves that return only Success or
\* Failure, the inverted sequence of inverted leaves returns on every tick
\* what the selector over the same leaves returns, and ticks the same leaves
\* in the same order, in both runtimes.
SelectorSequenceDuality ==
    IsDualPair =>
        \A rt \in Runtimes :
            Log(rt, 1) # <<>> =>
                /\ ResultOf(Log(rt, 1), 1) = ResultOf(Log(rt, 2), 1)
                /\ LeafTicks(Log(rt, 1), Tab(1)) = LeafTicks(Log(rt, 2), Tab(2))

\* sequence { a, always_running, b }
PendingScenario == new_sequence(<<LeafFactory(2), AlwaysRunningFactory, LeafFactory(4)>>)

\* C10. Pending-run memory, in both runtimes: from the tick in which a
\* sequence (selector) returns Running until it next returns Success or
\* Failure, no child that returned Success (Failure) in that run is ticked
\* again.  In sequence { a, always_running, b }, once a has returned Success
\* it is never ticked again and every tick returns Running.
PendingRunMemory ==
    \A rt \in Runtimes : \A s \in Slots :
        /\ \A v \in VisitedNodes(rt, s, {"Sequence", "Selector"}) :
               \A e \in Range(ChildTicks(Log(rt, s), Tab(s), v)) :
                   e.idx \notin Seen(rt, s)[v].prevDone
        /\ (factories[s] = PendingScenario /\ Log(rt, s) # <<>>) =>
               LET ct == ChildTicks(Log(rt, s), Tab(s), 1)
               IN  /\ 0 \in Seen(rt, s)[1].prevDone =>
                          /\ \A e \in Range(ct) : e.idx # 0
                          /\ 0 \in Seen(rt, s)[1].done
                   /\ (ct[1].idx # 0 \/ ct[1].res = "Success") =>
                          ResultOf(Log(rt, s), 1) = "Running"

\* sequence { a, always_running, b } has been ticked again after a returned
\* Success, in both runtimes.
PendingRunMemoryWitness ==
    \E s \in Slots : \A rt \in Runtimes :
        /\ factories[s] = PendingScenario
        /\ Log(rt, s) # <<>>
        /\ 0 \in Seen(rt, s)[1].prevDone

\* The leaf visits of a log, in the order in which they happened.
LeafEvents(rt, s) == SelectSeq(Log(rt, s), LAMBDA e : Tab(s)[e.id].kind = "Leaf")

\* C11. Child ordering, in both runtimes: the leaves ticked in one tick are
\* ticked in strictly increasing pre-order position, which is the order in
\* which the source text lists them.
ChildOrdering ==
    \A rt \in Runtimes : \A s \in Slots :
        LET le == LeafEvents(rt, s)
        IN  \A j, k \in DOMAIN le : j < k => le[j].id < le[k].id

\* One tick has ticked three leaves of a tree with a nested composite, in
\* both runtimes.
ChildOrderingWitness ==
    \E s \in Slots : \A rt \in Runtimes :
        /\ Len(LeafEvents(rt, s)) >= 3
        /\ \E v \in DOMAIN Tab(s) : Tab(s)[v].kind # "Leaf" /\ Tab(s)[v].parent # 0

SelectorScenario == new_selector(<<AlwaysRunningFactory, LeafFactory(3)>>)

PriorityScenario == new_priority(<<new_inverter(AlwaysRunningFactory), LeafFactory(4)>>)

\* C12. Running stops the tick, in both runtimes: when a child of a sequence,
\* selector or priority returns Running, it is the last child ticked in that
\* tick and the composite returns Running; selector { always_running, x } and
\* priority { inverter { always_running }, x } return Running in every tick and
\* x is never ticked.
RunningStopsTick ==
    \A rt \in Runtimes : \A s \in Slots :
        /\ \A v \in VisitedNodes(rt, s, CompositeKinds) :
               LET ct == ChildTicks(Log(rt, s), Tab(s), v)
               IN  \A k \in DOMAIN ct :
                       ct[k].res = "Running" =>
                           /\ k = Len(ct)
                           /\ ResultOf(Log(rt, s), v) = "Running"
        /\ factories[s] \in {SelectorScenario, PriorityScenario} /\ Log(rt, s) # <<>> =>
               /\ Last(Log(rt, s)) = Event(1, "Running")
               /\ \A e \in Range(LeafEvents(rt, s)) : Tab(s)[e.id].factory = "always_running"

\* priority { inverter { always_running }, x } has been ticked at least twice
\* in both runtimes: its first child returned Running while x was still to
\* come.
RunningStopsTickWitness ==
    \E s \in Slots :
        /\ factories[s] = PriorityScenario
        /\ \A rt \in Runtimes :
               /\ Seen(rt, s)[1].prevRun = Some(0)
               /\ ChildTicks(Log(rt, s), Tab(s), 1) = <<[idx |-> 0, res |-> "Running"]>>

\* The stored resumption indices of the instances of slot s, in pre-order.
StoredIndices(s) == [rec |-> Tree_running(trees[s]), opt |-> OptimizedTree_running(flats[s])]

\* C13. Instance independence: a visit of one instance changes nothing of the
\* instances of the same factory that were not visited (their stored indices,
\* their whole state), and what the visited instance does is what its own
\* state before the visit and the leaf results give, whatever was done to the
\* others in between.
InstanceIndependence ==
    [][\A s \in Slots :
          IF s \in last'.slots /\ last'.op = "visit"
          THEN \E lr \in LeafResults :
                  /\ recLog'[s] = Tree_visit(trees[s], lr).log
                  /\ optLog'[s] = OptimizedTree_visit(flats[s], lr).log
          ELSE /\ Tree_running(trees'[s]) = Tree_running(trees[s])
               /\ OptimizedTree_running(flats'[s]) = OptimizedTree_running(flats[s])
               /\ trees'[s] = trees[s]
               /\ flats'[s] = flats[s]
               /\ recLog'[s] = recLog[s]
               /\ optLog'[s] = optLog[s]]_vars

\* Two instances of one factory hold different stored indices: one was visited
\* while the other, which holds an index, was not.
InstanceIndependenceWitness ==
    /\ Len(factories) >= 2
    /\ factories[1] = factories[2]
    /\ last = [op |-> "visit", slots |-> {1}]
    /\ \E v \in DOMAIN tables[2] : StoredIndices(2).rec[v] # None /\ StoredIndices(2).opt[v] # None
    /\ StoredIndices(1).rec # StoredIndices(2).rec
    /\ StoredIndices(1).opt # StoredIndices(2).opt

\* The leaf behaviours held by the instances of slot s.
BehavioursOf(s) == Range(behaviours[s].rec) \cup Range(behaviours[s].opt)

\* C14. Fresh state: the Tree and the OptimizedTree that a build returns have
\* no stored index in any node and a leaf behaviour of their own for every
\* leaf, made by that build, whatever was built and visited before; no build
\* and no visit changes the factory.
FreshState ==
    [][/\ \A s \in Slots : factories'[s] = factories[s] /\ factories'[s] = factories[1]
       /\ last'.op = "build" /\ Len(factories') > Len(factories) =>
             \A n \in last'.slots :
                 /\ factories'[n] = factories[1]
                 /\ \A v \in DOMAIN tables'[n] :
                        /\ Tree_running(trees'[n])[v] = None
                        /\ OptimizedTree_running(flats'[n])[v] = None
                 /\ Len(behaviours'[n].rec) = NumLeaves(factories'[n])
                 /\ Len(behaviours'[n].opt) = NumLeaves(factories'[n])
                 /\ Cardinality(Range(behaviours'[n].rec) \cup Range(behaviours'[n].opt))
                        = 2 * NumLeaves(factories'[n])
                 /\ \A s \in Slots :
                        (Range(behaviours'[n].rec) \cup Range(behaviours'[n].opt))
                            \cap BehavioursOf(s) = {}]_vars

\* An instance has just been built from a factory whose earlier instance was
\* visited and holds a stored index in both runtimes.
FreshStateWitness ==
    /\ last = [op |-> "build", slots |-> {2}]
    /\ \E v \in DOMAIN tables[1] : StoredIndices(1).rec[v] # None /\ StoredIndices(1).opt[v] # None
    /\ recLog[1] # <<>>
    /\ recLog[2] = <<>>

\* The leaf invocations of a syntax tree, in the order of the source text.
RECURSIVE LeafInvocations(_)
LeafInvocations(node) ==
    IF node.kind = "Leaf" THEN <<[name |-> node.name, options |-> node.options]>>
    ELSE LET RECURSIVE Rest(_)
             Rest(j) == IF j > Len(node.children) THEN <<>>
                        ELSE LeafInvocations(node.children[j]) \o Rest(j + 1)
         IN  Rest(1)

\* The leaf invocations of all the trees of an accepted input, in order.
SourceInvocations ==
    LET ts == source.grammar.value
        RECURSIVE Rest(_)
        Rest(j) == IF j > Len(ts) THEN <<>> ELSE LeafInvocations(ts[j].root) \o Rest(j + 1)
    IN  Rest(1)

\* The registry has no entry for the leaf, or its entry rejects the argument.
Unresolvable(inv) ==
    \/ inv.name \notin DOMAIN leaves
    \/ /\ leaves[inv.name] = "print_text"
       /\ (inv.options = None \/ inv.options[1].kind # "String")

StandardNames == {"print_text", "always_running", "evaluate_int", "check_condition", "increment"}

\* The invocation names a standard leaf and gives it an argument of the
\* shape that leaf takes: a string for print_text, nothing for always_running.
WellFormedStandard(inv) ==
    /\ inv.name \in StandardNames
    /\ inv.name = "print_text" => inv.options # None /\ inv.options[1].kind = "String"

\* C16. The standard registry resolves each of print_text, always_running,
\* evaluate_int, check_condition and increment: a source whose leaves all name
\* one of them, with a well-formed argument, parses successfully against it.
StandardRegistryComplete ==
    /\ parsed.run
    /\ leaves = LeavesCollection_standard
    /\ source.grammar.ok
    /\ \A k \in DOMAIN SourceInvocations : WellFormedStandard(SourceInvocations[k])
    => /\ parsed.ok
       /\ \A k \in DOMAIN SourceInvocations : SourceInvocations[k].name \in DOMAIN leaves

\* The bindings of the keys other than key are the same in the two maps.
SameElsewhere(before, after, key) ==
    /\ DOMAIN after \ {key} = DOMAIN before \ {key}
    /\ \A k \in DOMAIN before \ {key} : after[k] = before[k]

\* C17. Context store: set_value on a present key overwrites its value,
\* returns Ok and changes no other binding; set_value on an absent key returns
\* Err and leaves the whole map as it was, without the key; insert_value makes
\* the key map to the value, present before or not, and changes no other
\* binding.
ContextStore ==
    /\ storeOp.name = "set_value" /\ storeOp.key \in DOMAIN storeOp.before =>
           /\ storeOp.result = "Ok"
           /\ storeOp.key \in DOMAIN context
           /\ context[storeOp.key] = storeOp.value
           /\ SameElsewhere(storeOp.before, context, storeOp.key)
    /\ storeOp.name = "set_value" /\ storeOp.key \notin DOMAIN storeOp.before =>
           /\ storeOp.result = "Err"
           /\ storeOp.key \notin DOMAIN context
           /\ DOMAIN context = DOMAIN storeOp.before
           /\ \A k \in DOMAIN context : context[k] = storeOp.before[k]
    /\ storeOp.name = "insert_value" =>
           /\ storeOp.key \in DOMAIN context
           /\ context[storeOp.key] = storeOp.value
           /\ SameElsewhere(storeOp.before, context, storeOp.key)

\* set_value has just failed on an absent key of a map that holds two other
\* bindings, one a String and one an I64.
ContextStoreWitness ==
    /\ storeOp.name = "set_value"
    /\ storeOp.result = "Err"
    /\ Cardinality(DOMAIN context) = 2
    /\ \E k \in DOMAIN context : context[k].kind = "String"
    /\ \E k \in DOMAIN context : context[k].kind = "I64"

\* The infix expression that ends at member k of a postfix expression: an
\* operand stands for itself; an operator takes the expression that ends just
\* before it as its right operand and the one that ends just before that as
\* its left operand.  start is the member at which the expression begins.
RECURSIVE InfixFrom(_, _)
InfixFrom(e, k) ==
    IF k < 1 THEN [ok |-> FALSE]
    ELSE IF e[k].kind # "Op" THEN [ok |-> TRUE, tree |-> e[k], start |-> k]
    ELSE LET right == InfixFrom(e, k - 1)
         IN  IF ~right.ok THEN [ok |-> FALSE]
             ELSE LET left == InfixFrom(e, right.start - 1)
                  IN  IF ~left.ok THEN [ok |-> FALSE]
                      ELSE [ok |-> TRUE, start |-> left.start,
                            tree |-> [kind |-> "Infix", value |-> e[k].value,
                                      left |-> left.tree, right |-> right.tree]]

\* The postfix expression encodes one infix expression, whole.
WellFormed(e) == e # <<>> /\ InfixFrom(e, Len(e)).ok /\ InfixFrom(e, Len(e)).start = 1

\* Every variable of the expression is an integer variable of the map.
IntegerVariables(e, map) ==
    \A k \in DOMAIN e :
        e[k].kind = "Variable" => e[k].value \in DOMAIN map /\ map[e[k].value].kind = "I64"

\* The value of an infix expression over the integers, the quotient rounded
\* toward zero: defined unless a divisor is zero; fits tells that the value of
\* every subexpression lies in the range of i64.
RECURSIVE InfixValue(_, _)
InfixValue(tree, map) ==
    CASE tree.kind = "Constant" -> [defined |-> TRUE, fits |-> TRUE, value |-> tree.value]
      [] tree.kind = "Variable" -> [defined |-> TRUE, fits |-> TRUE, value |-> map[tree.value].value]
      [] tree.kind = "Infix" ->
             LET a == InfixValue(tree.left, map)
                 b == InfixValue(tree.right, map)
             IN  IF ~a.defined \/ ~b.defined \/ (tree.value = "Divide" /\ b.value = 0)
                 THEN [defined |-> FALSE, fits |-> FALSE, value |-> 0]
                 ELSE LET v == CASE tree.value = "Plus" -> a.value + b.value
                                 [] tree.value = "Minus" -> a.value - b.value
                                 [] tree.value = "Multiply" -> a.value * b.value
                                 [] tree.value = "Divide" ->
                                        IF (a.value < 0) = (b.value < 0)
                                        THEN (IF a.value < 0 THEN -a.value ELSE a.value)
                                                 \div (IF b.value < 0 THEN -b.value ELSE b.value)
                                        ELSE -((IF a.value < 0 THEN -a.value ELSE a.value)
                                                 \div (IF b.value < 0 THEN -b.value ELSE b.value))
                      IN  [defined |-> TRUE, value |-> v,
                           fits |-> a.fits /\ b.fits /\ v >= i64_MIN /\ v <= i64_MAX]

\* The value of the infix expression that the evaluated expression encodes.
Encoded == InfixValue(InfixFrom(expression, Len(expression)).tree, context)

\* C18 as stated. Postfix evaluation: for every well-formed postfix expression
\* over constants, integer context variables and + - * /,
\* evaluate_expression_int returns the value of the infix expression it
\* encodes, the earlier-pushed operand being the left one, and the context is
\* not modified.
PostfixEvaluation ==
    evaluated.run /\ WellFormed(expression) /\ IntegerVariables(expression, context) =>
        /\ evaluated.returned
        /\ Encoded.defined
        /\ evaluated.value = Encoded.value
        /\ context = TestContext

\* C18 as amended. For every such expression in which no divisor is zero and
\* the value of every subexpression fits in i64, evaluate_expression_int
\* returns the value of the infix expression it encodes, the quotient rounded
\* toward zero and the earlier-pushed operand being the left one;
\* [1, 2, +] gives 3 and [2, forty_two, two, /, *, 3, -] gives 39; the context
\* is not modified.
PostfixEvaluationInRange ==
    /\ evaluated.run /\ WellFormed(expression) /\ IntegerVariables(expression, context)
           /\ Encoded.defined /\ Encoded.fits =>
           /\ evaluated.returned
           /\ evaluated.value = Encoded.value
    /\ evaluated.run /\ expression = <<Constant(1), Constant(2), Op("Plus")>> =>
           evaluated.returned /\ evaluated.value = 3
    /\ evaluated.run /\ expression = <<Constant(2), Variable("forty_two"), Variable("two"),
                                       Op("Divide"), Op("Multiply"), Constant(3), Op("Minus")>> =>
           evaluated.returned /\ evaluated.value = 39
    /\ context = TestContext

\* The expression of the test evaluate_int_variable, with a division and a
\* subtraction of unequal operands, has been evaluated.
PostfixEvaluationInRangeWitness ==
    /\ evaluated.run
    /\ evaluated.returned
    /\ Len(expression) = 7
    /\ WellFormed(expression)
    /\ Encoded.value = 39

\* The number of values on the stack after the first k members, were no
\* operator ever short of operands: one more per operand, one less per
\* operator.
DepthAfter(e, k) ==
    Cardinality({j \in 1..k : e[j].kind # "Op"}) - Cardinality({j \in 1..k : e[j].kind = "Op"})

\* Some operator finds fewer than two values.
Underflow(e) == \E k \in DOMAIN e : e[k].kind = "Op" /\ DepthAfter(e, k - 1) < 2

\* C19. Ill-formed postfix expressions are detected: evaluate_expression_int
\* panics when an operator finds fewer than two operands, when the expression
\* is empty, when more than one value is left at the end, and when a variable
\* is missing from the context or is not an integer; it returns a value only
\* when exactly one value remains.  [1, 2, +, *] panics.
IllFormedDetected ==
    evaluated.run =>
        /\ Underflow(expression) => ~evaluated.returned
        /\ expression = <<>> => ~evaluated.returned
        /\ DepthAfter(expression, Len(expression)) > 1 => ~evaluated.returned
        /\ ~IntegerVariables(expression, context) => ~evaluated.returned
        /\ evaluated.returned =>
               ~Underflow(expression) /\ DepthAfter(expression, Len(expression)) = 1
        /\ expression = <<Constant(1), Constant(2), Op("Plus"), Op("Multiply")>> =>
               ~evaluated.returned

\* An expression in which no operator was short of operands and every
\* variable is an integer has left two values on the stack, and the
\* evaluation panicked on the final assertion.
IllFormedDetectedWitness ==
    /\ evaluated.run
    /\ ~evaluated.returned
    /\ evaluated.panic = "assertion failed: stack.is_empty()"
    /\ ~Underflow(expression)
    /\ \E k \in DOMAIN expression : expression[k].kind = "Variable"
    /\ DepthAfter(expression, Len(expression)) = 2

\* sequence { evaluate_int([1, 2, +] into x), check_condition(x = 3) }
EvaluateIntScenario ==
    new_sequence(<<EvaluateIntFactory(<<Constant(1), Constant(2), Op("Plus")>>, "x"),
                   CheckConditionFactory(<<Variable("x")>>, <<Constant(3)>>, "Equal")>>)

\* The evaluate_int leaf of the tree.
EvaluateIntNode == CHOOSE v \in DOMAIN Tab(1) : Tab(1)[v].factory = "evaluate_int"

\* The runtime has not panicked and its log is the log of a tick.
Ticked(rt) == ~contexts[rt].panicked /\ Log(rt, 1) # <<>>

\* What the comparison of a check_condition leaf gives on a context.
ComparisonOn(self, map) ==
    IF check_condition(evaluate_expression_int(map, self.exp1, overflow_checks).value,
                       evaluate_expression_int(map, self.exp2, overflow_checks).value,
                       self.operator)
    THEN "Success" ELSE "Failure"

\* C20. evaluate_int leaf: a tick of the leaf evaluates its expression against
\* the context, binds the result variable to the integer result, whether the
\* variable was absent or had a value of any kind, changes no other binding
\* and returns Success; a tick that does not reach the leaf leaves the context
\* as it was; a check_condition leaf ticked after it in the same tick compares
\* against the new value; the tick of sequence { evaluate_int([1, 2, +] into
\* x), check_condition(x = 3) } returns Success and leaves x = 3.
EvaluateIntLeaf ==
    \A rt \in Runtimes :
       Ticked(rt) =>
          LET log == Log(rt, 1)
              self == Tab(1)[EvaluateIntNode].leaf
              before == contexts[rt].before
              after == contexts[rt].map
              result == evaluate_expression_int(before, self.expression, overflow_checks)
              at == {k \in DOMAIN log : log[k].id = EvaluateIntNode}
          IN  /\ \A k \in at :
                   /\ log[k].res = "Success"
                   /\ result.returned
                   /\ self.variable \in DOMAIN after
                   /\ after[self.variable] = StoreKind_I64(result.value)
                   /\ SameElsewhere(before, after, self.variable)
                   /\ \A j \in DOMAIN log :
                        (j > k /\ Tab(1)[log[j].id].factory = "check_condition")
                            => log[j].res = ComparisonOn(Tab(1)[log[j].id].leaf, after)
              /\ at = {} => after = before
              /\ factories[1] = EvaluateIntScenario =>
                   /\ Last(log) = Event(1, "Success")
                   /\ after["x"] = StoreKind_I64(3)

\* The scenario tree was ticked in both runtimes on a context in which x was
\* a string: the tick returned Success and x is the integer 3.
EvaluateIntLeafWitness ==
    /\ factories[1] = EvaluateIntScenario
    /\ \A rt \in Runtimes :
         /\ Ticked(rt)
         /\ "x" \in DOMAIN contexts[rt].before
         /\ contexts[rt].before["x"].kind = "String"
         /\ contexts[rt].map["x"] = StoreKind_I64(3)
         /\ Last(Log(rt, 1)) = Event(1, "Success")

\* The sequences and selectors of the tree of slot s.
WithMemory(s) == {v \in DOMAIN Tab(s) : Tab(s)[v].kind \in {"Sequence", "Selector"}}

\* C29. Tree-wide idle state: in either runtime and in any tree, right after a
\* tick of the root returns Success or Failure, no sequence or selector of the
\* tree has a stored resumption index.
TreeWideIdle ==
    \A rt \in Runtimes : \A s \in Slots :
        (Log(rt, s) # <<>> /\ Last(Log(rt, s)).res \in {"Success", "Failure"})
            => \A v \in WithMemory(s) : Running(rt, s, v) = None

\* C30. Stored index range: in either runtime, the stored resumption index of
\* a sequence or selector is absent or the index of one of its children, and
\* when present it is the child whose Running ended the latest tick of the
\* node.
StoredIndexRange ==
    \A rt \in Runtimes : \A s \in Slots : \A v \in WithMemory(s) :
        Running(rt, s, v) # None
            => /\ Running(rt, s, v)[1] \in 0..(Tab(s)[v].nch - 1)
               /\ Seen(rt, s)[v].run = Running(rt, s, v)

\* The kinds of the nodes of a Tree, in pre-order.
RECURSIVE Tree_kinds(_)
Tree_kinds(node) ==
    LET RECURSIVE Rest(_)
        Rest(j) == IF j > Len(node.children) THEN <<>>
                   ELSE Tree_kinds(node.children[j]) \o Rest(j + 1)
    IN  <<node.kind>> \o Rest(1)

\* The kinds of the nodes of the factory, in pre-order.
FactoryKinds == [v \in DOMAIN Tab(1) |-> Tab(1)[v].kind]

\* The kinds of the nodes of what instanciate() and optimize() gave.
BuiltKinds ==
    [rec |-> IF trees = <<>> THEN <<>> ELSE Tree_kinds(trees[1]),
     opt |-> IF flats = <<>> THEN <<>> ELSE [v \in DOMAIN flats[1] |-> flats[1][v].node.kind]]

\* C25. A subtree node is a fatal build-time error: instanciate() and
\* optimize() of a factory tree with a Subtree node panic; what they return
\* has a node for every node of the factory, of the same kind, none of them a
\* Subtree.
SubtreeAborts ==
    \A rt \in Runtimes :
        BuiltKinds[rt] # <<>> =>
            IF "Subtree" \in Range(FactoryKinds)
            THEN BuiltKinds[rt] = <<"panic">>
            ELSE BuiltKinds[rt] = FactoryKinds

\* Both calls were made on a factory in which a Subtree comes after a leaf
\* under the root, and both panicked.
SubtreeAbortsWitness ==
    /\ Len(FactoryKinds) = 3
    /\ FactoryKinds[2] = "Leaf" /\ FactoryKinds[3] = "Subtree"
    /\ BuiltKinds = [rec |-> <<"panic">>, opt |-> <<"panic">>]

\* The first position from i on whose character is not in the set (one past
\* the end if there is none).
RECURSIVE RunEnd(_, _)
RunEnd(i, set) == IF i <= Len(chars) /\ chars[i] \in set THEN RunEnd(i + 1, set) ELSE i

\* The position at which the token of a call begins: the first character
\* after the whitespace.
TokenStart(e) == RunEnd(e.from, Whitespace)

\* The calls whose token begins with the given characters.
CallsAt(set) ==
    {k \in DOMAIN emitted : TokenStart(emitted[k]) <= Len(chars)
                            /\ chars[TokenStart(emitted[k])] \in set}

\* The number written with decimal digits from position i up to j - 1.
RECURSIVE Decimal(_, _)
Decimal(i, j) == IF j <= i THEN 0 ELSE 10 * Decimal(i, j - 1) + DigitValue(chars[j - 1])

\* C22. Lexer minus disambiguation: a '-' immediately followed by a decimal
\* digit gives one Integer token, the negative of the number the digits after
\* it write, and the lexer goes on after the digits; a '-' followed by any
\* other character or by the end of the input gives Minus, and the lexer goes
\* on at the character after the '-'.  [1,-2,+] gives LeftArray, Integer(1),
\* Comma, Integer(-2), Comma, Plus, RightArray.
MinusDisambiguation ==
    /\ \A k \in CallsAt({"-"}) :
          LET e == emitted[k]
              at == TokenStart(e)
              end == RunEnd(at + 1, DecimalDigits)
          IN  IF end > at + 1
              THEN /\ e.kind = "Ok"
                   /\ e.value = Token("Integer", -Decimal(at + 1, end))
                   /\ e.upto = end
              ELSE /\ e.kind = "Ok"
                   /\ e.value = Token("Minus", <<>>)
                   /\ e.upto = at + 1
    /\ (chars = <<"[", "1", ",", "-", "2", ",", "+", "]">> /\ Len(emitted) >= 7) =>
          [k \in 1..7 |-> emitted[k].value] =
              <<Token("LeftArray", <<>>), Token("Integer", 1), Token("Comma", <<>>),
                Token("Integer", -2), Token("Comma", <<>>), Token("Plus", <<>>),
                Token("RightArray", <<>>)>>

\* The characters from position i up to j - 1.
Slice(i, j) == [k \in 1..(j - i) |-> chars[i + k - 1]]

\* The token of each reserved word.
Keywords ==
    {<<(<<"t", "r", "e", "e">>), "Root">>,
     <<(<<"s", "u", "b", "t", "r", "e", "e">>), "Subtree">>,
     <<(<<"s", "e", "l", "e", "c", "t", "o", "r">>), "Selector">>,
     <<(<<"s", "e", "q", "u", "e", "n", "c", "e">>), "Sequence">>,
     <<(<<"p", "r", "i", "o", "r", "i", "t", "y">>), "Priority">>,
     <<(<<"i", "n", "v", "e", "r", "t", "e", "r">>), "Inverter">>}

\* C23. Lexer identifiers and keywords: a token that begins with an alphabetic
\* character is the longest run of alphanumeric characters and '_' from
\* there; it is a keyword token exactly when the whole run is one of tree,
\* subtree, selector, sequence, priority, inverter, and Ident(run) otherwise;
\* the lexer goes on at the character that ended the run.
WordsAndKeywords ==
    \A k \in CallsAt(Alphabetic) :
        LET e == emitted[k]
            at == TokenStart(e)
            end == RunEnd(at, Alphabetic \cup Numeric \cup {"_"})
            word == Slice(at, end)
        IN  /\ e.kind = "Ok"
            /\ e.upto = end
            /\ \A kw \in Keywords : e.value.kind = kw[2] <=> word = kw[1]
            /\ (\A kw \in Keywords : word # kw[1]) => e.value = Token("Ident", word)
            /\ k < Len(emitted) => emitted[k + 1].from = end

\* tree{ gave Root and then LeftBracket.
WordsAndKeywordsWitness ==
    /\ chars = <<"t", "r", "e", "e", "{">>
    /\ Len(emitted) >= 2
    /\ emitted[1].value = Token("Root", <<>>)
    /\ emitted[2].value = Token("LeftBracket", <<>>)

\* The number of backslashes that end right before position i, not counting
\* those at or before position low.
RECURSIVE BackslashesBefore(_, _)
BackslashesBefore(i, low) ==
    IF i - 1 > low /\ chars[i - 1] = Backslash THEN 1 + BackslashesBefore(i - 1, low) ELSE 0

\* The closing quotes of the string opened at position at: the quotes after
\* it that no backslash escapes.
ClosingQuotes(at) ==
    {q \in (at + 1)..Len(chars) : chars[q] = Quote /\ BackslashesBefore(q, at) % 2 = 0}

\* What the characters from position i up to j - 1 of a string stand for.
RECURSIVE Unescaped(_, _)
Unescaped(i, j) ==
    IF i >= j THEN <<>>
    ELSE IF chars[i] # Backslash THEN <<chars[i]>> \o Unescaped(i + 1, j)
    ELSE <<(CASE chars[i + 1] = "n" -> NewlineChar
              [] chars[i + 1] = "t" -> TabChar
              [] OTHER -> chars[i + 1])>> \o Unescaped(i + 2, j)

\* C24. Lexer quoted strings: the string token ends at the first quote that
\* no backslash escapes; an escaped character other than \\, n, t and the
\* quote stands for itself; when the input ends before such a quote the call
\* gives the error 'unfinished quoted string', in its 'during escape sequence'
\* form when the input ends right after an escaping backslash, and no
\* QuotedString token.
QuotedStrings ==
    \A k \in CallsAt({Quote}) :
        LET e == emitted[k]
            at == TokenStart(e)
            closing == ClosingQuotes(at)
        IN  IF closing # {}
            THEN LET q == CHOOSE c \in closing : \A d \in closing : c <= d
                 IN  /\ e.kind = "Ok"
                     /\ e.value = Token("QuotedString", Unescaped(at + 1, q))
                     /\ e.upto = q + 1
            ELSE /\ e.kind = "Err"
                 /\ e.value =
                       IF BackslashesBefore(Len(chars) + 1, at) % 2 = 1
                       THEN <<"Lexer error: unfinished quoted string during escape sequence">>
                       ELSE <<"Lexer error: unfinished quoted string">>

\* A string with the four escapes was lexed up to its closing quote and the
\* lexer went on with the identifier after it.
QuotedStringsWitness ==
    /\ chars = <<Quote, "a", Backslash, "n", Backslash, "t", Backslash, Quote,
                 Backslash, Backslash, Quote, "a">>
    /\ Len(emitted) >= 2
    /\ emitted[1].value =
           Token("QuotedString", <<"a", NewlineChar, TabChar, Quote, Backslash>>)
    /\ emitted[2].value = Token("Ident", <<"a">>)

\* The call of the function has returned.
Called(api) == apiCall.api = api /\ apiResult.called

\* The member an operand translates to.
Operand(v) ==
    CASE v.kind = "String" -> Variable(v.value)
      [] v.kind = "Integer" -> Constant(v.value)
      [] v.kind = "Operator" -> Op(v.value)

Operands == {"String", "Integer", "Operator"}

\* C28. Expression compiler: generate_postfixed_expression translates an array
\* of Values element by element, in order and to the same length, String(s) to
\* Variable(s), Integer(n) to Constant(n), Operator(op) to Op(op); if an
\* element is a Map, an Array or an Unknown, it returns an error for the first
\* such element and no expression; an array whose operators do not find two
\* operands, [1, 2, +, *], is translated without error.
PostfixCompiler ==
    Called("generate_postfixed_expression") =>
        LET array == apiCall.args[1]
            r == apiResult.returned
            others == {k \in DOMAIN array : array[k].kind \in {"Map", "Array", "Unknown"}}
        IN  /\ others = {} =>
                 /\ r.ok
                 /\ Len(r.value) = Len(array)
                 /\ \A k \in DOMAIN array : r.value[k] = Operand(array[k])
            /\ others # {} =>
                 /\ ~r.ok
                 /\ \E first \in others :
                      /\ \A k \in others : first <= k
                      /\ r.value = <<"Expected operand, found ", array[first]>>
            /\ array = WrongArity => r.ok

\* [1, 2, +, *] was translated to four members.
PostfixCompilerWitness ==
    /\ Called("generate_postfixed_expression")
    /\ apiCall.args[1] = WrongArity
    /\ apiResult.returned =
           Ok(<<Constant(1), Constant(2), Op("Plus"), Op("Multiply")>>)

\* C26. Layered lookup is first-hit: the lookup of a key over a list of
\* mappings returns the value of the first mapping, in list order, that
\* contains the key, and nothing only when no mapping of the list contains it.
FirstHit ==
    Called("get") =>
        LET layers == apiCall.args[1]
            k == apiCall.args[2]
            hits == {i \in DOMAIN layers : k \in DOMAIN layers[i]}
        IN  IF hits = {} THEN apiResult.returned = None
            ELSE \E first \in hits :
                   /\ \A i \in hits : first <= i
                   /\ apiResult.returned = Some(layers[first][k])

\* The key was in the first two layers with different values and the lookup
\* returned the value of the first.
FirstHitWitness ==
    /\ Called("get")
    /\ Len(apiCall.args[1]) >= 2
    /\ apiCall.args[2] \in DOMAIN apiCall.args[1][1]
    /\ apiCall.args[2] \in DOMAIN apiCall.args[1][2]
    /\ apiCall.args[1][1][apiCall.args[2]] # apiCall.args[1][2][apiCall.args[2]]
    /\ apiResult.returned = Some(apiCall.args[1][1][apiCall.args[2]])

\* The comparison the operator of the options denotes.
Holds(a, symbol, b) ==
    CASE symbol = ">" -> a > b
      [] symbol = "<" -> a < b
      [] symbol = "=" -> a = b
      [] symbol = ">=" -> a >= b
      [] symbol = "<=" -> a <= b

\* The options of check_condition have the shape the leaf needs: a map in
\* which exp1 and exp2 are arrays of operands and operator is one of the five
\* comparisons (as a char: one of the three of one character).
RightShape(options) ==
    /\ options # None
    /\ options[1].kind = "Map"
    /\ LET m == options[1].value
       IN  /\ \A key \in {"exp1", "exp2"} :
                /\ key \in DOMAIN m
                /\ m[key].kind = "Array"
                /\ \A k \in DOMAIN m[key].value : m[key].value[k].kind \in Operands
           /\ "operator" \in DOMAIN m
           /\ IF m["operator"].kind = "Unknown" THEN m["operator"].value \in {">", "<", "="}
              ELSE IF m["operator"].kind = "String"
              THEN m["operator"].value \in {">", "<", "=", ">=", "<="}
              ELSE FALSE

\* What the expression under a key of the options evaluates to on a context.
ValueOf(options, key, map) ==
    evaluate_expression_int(map,
        [k \in DOMAIN options[1].value[key].value |-> Operand(options[1].value[key].value[k])],
        overflow_checks)

\* C21. check_condition leaf: building the leaf gives a factory if the options
\* are a map with arrays of operands for exp1 and exp2 and one of the
\* operators >, <, =, >=, <=, and an error and no factory if one of them is
\* missing or has another shape; a tick evaluates both expressions against the
\* context and, when it returns, returns Success if 'exp1 operator exp2'
\* holds and Failure if not, never Running, and leaves the context as it was;
\* it returns unless one of the evaluations fails.
CheckConditionLeaf ==
    Called("check_condition_node") =>
        LET options == apiCall.args[1]
            r == apiResult.returned
        IN  /\ r.ok <=> RightShape(options)
            /\ r.ok => r.value.factory = "check_condition"
            /\ ~r.ok => trees = <<>>
            /\ last.op = "visit" =>
                 LET v1 == ValueOf(options, "exp1", contexts.before)
                     v2 == ValueOf(options, "exp2", contexts.before)
                 IN  /\ contexts.map = contexts.before
                     /\ contexts.panicked <=> ~(v1.returned /\ v2.returned)
                     /\ ~contexts.panicked =>
                          recLog[1] = <<Event(1,
                              IF Holds(v1.value, options[1].value["operator"].value, v2.value)
                              THEN "Success" ELSE "Failure")>>

\* The leaf built for x + two >= 3 was ticked on a context with x = 1 and
\* two = 2 and returned Success.
CheckConditionLeafWitness ==
    /\ Called("check_condition_node")
    /\ apiCall.args[1] =
           Some(Value_Map([exp1 |-> Value_Array(<<Value_String("x"), Value_String("two"),
                                                  Value_Operator("Plus")>>),
                           exp2 |-> Value_Array(<<Value_Integer(3)>>),
                           operator |-> Value_String(">=")]))
    /\ last.op = "visit"
    /\ ~contexts.panicked
    /\ contexts.before["two"] = StoreKind_I64(2)
    /\ "x" \in DOMAIN contexts.before
    /\ contexts.before["x"] = StoreKind_I64(1)
    /\ recLog = <<(<<Event(1, "Success")>>)>>

\* C27. print_text leaf: parsing a tree whose root is a print_text leaf with
\* the standard registry gives a factory if the argument is a String and an
\* error for no argument or an argument of any other kind; the text of the
\* leaf is the argument with every "_" replaced by a space; every tick of the
\* instance returns Success, so the tree finishes in its first tick, and
\* leaves the context as it was.
PrintTextLeaf ==
    Called("parse") =>
        LET option == apiCall.args[1].grammar.value[1].root.options
            r == apiResult.returned
        IN  /\ r.ok <=> (option # None /\ option[1].kind = "String")
            /\ r.ok =>
                 LET text == r.value[1].root.leaf
                     message == option[1].value
                 IN  /\ Len(r.value) = 1
                     /\ r.value[1].root.factory = "print_text"
                     /\ Len(text) = Len(message)
                     /\ \A k \in DOMAIN message :
                          text[k] = IF message[k] = "_" THEN " " ELSE message[k]
            /\ ~r.ok => trees = <<>>
            /\ last.op = "visit" =>
                 /\ ~contexts.panicked
                 /\ recLog[1] = <<Event(1, "Success")>>
                 /\ contexts.map = contexts.before

\* The tree print_text("a_b") was parsed and ticked: its text is "a b" and the
\* tick returned Success.
PrintTextLeafWitness ==
    /\ Called("parse")
    /\ apiCall.args[1].grammar.value[1].root.options = Some(Value_String(<<"a", "_", "b">>))
    /\ last.op = "visit"
    /\ trees # <<>>
    /\ trees[1].leaf = <<"a", " ", "b">>
    /\ recLog = <<(<<Event(1, "Success")>>)>>

\* C35. Integer literal range: a decimal literal, a run of decimal digits or
\* a '-' and a run of decimal digits, that ends at the end of the input or
\* before a character that is not numeric, and whose value is from i64::MIN
\* to i64::MAX, gives Integer(value) with that value, and the call does not
\* abort.
IntegerLiteralRange ==
    \A k \in CallsAt(DecimalDigits \cup {"-"}) :
        LET e == emitted[k]
            at == TokenStart(e)
            first == IF chars[at] = "-" THEN at + 1 ELSE at
            end == RunEnd(first, DecimalDigits)
            value == IF chars[at] = "-" THEN -Decimal(first, end) ELSE Decimal(first, end)
        IN  (/\ end > first
             /\ end = RunEnd(first, Numeric)
             /\ value >= i64_MIN
             /\ value <= i64_MAX)
                => /\ e.kind = "Ok"
                   /\ e.value = Token("Integer", value)
                   /\ e.upto = end

\* The calls that returned a token or an error.
Yielding == {k \in DOMAIN emitted : emitted[k].kind \in {"Ok", "Err"}}

\* C34. Tokenizer termination: a call of next() that returns a token or an
\* error begins at a character of the input that is no whitespace and goes
\* past it, so it consumes at least one character and there are no more such
\* calls than characters; a call returns None exactly when nothing or only
\* whitespace is left, and every call after it returns None.
TokenizerTermination ==
    /\ \A k \in Yielding :
          /\ TokenStart(emitted[k]) <= Len(chars)
          /\ chars[TokenStart(emitted[k])] \notin Whitespace
          /\ emitted[k].upto > TokenStart(emitted[k])
          /\ emitted[k].upto > emitted[k].from
    /\ Cardinality(Yielding) <= Len(chars)
    /\ \A k \in DOMAIN emitted :
          emitted[k].kind = "None" <=>
              (TokenStart(emitted[k]) > Len(chars) /\ emitted[k].kind # "panic")
    /\ \A j, k \in DOMAIN emitted :
          (j < k /\ emitted[j].kind = "None") =>
              /\ emitted[k].kind = "None"
              /\ emitted[k].from = Len(chars) + 1
              /\ emitted[k].upto = Len(chars) + 1

\* The input a, space, a gave two identifiers and then None twice: the spaces
\* gave no token.
TokenizerTerminationWitness ==
    /\ chars = <<"a", " ", "a">>
    /\ Len(emitted) = 4
    /\ emitted[1].value = Token("Ident", <<"a">>)
    /\ emitted[2].value = Token("Ident", <<"a">>)
    /\ emitted[2].from = 2
    /\ emitted[3].kind = "None"
    /\ emitted[4].kind = "None"

\* The characters a token other than an integer or a quoted string is
\* written with.
Spelling(token) ==
    CASE token.kind = "Ident" -> token.value
      [] token.kind = "Minus" -> <<"-">>
      [] \E kw \in Keywords : kw[2] = token.kind ->
             (CHOOSE kw \in Keywords : kw[2] = token.kind)[1]
      [] OTHER -> <<CHOOSE c \in Punctuation : PunctuationToken(c) = token.kind>>

\* C33. Lexer rewind is never doubled: whatever the input and however many
\* calls of next() are made, after an error and after None too, rewind() is
\* never called on a Memory that is rewinding; and the calls read the input
\* in order, each beginning where the one before it ended, a token being
\* written with exactly the characters from its first character to the first
\* unread one: no character is left out or read into two tokens.
RewindNeverDoubled ==
    /\ ~memory.panicked
    /\ \A k \in DOMAIN emitted :
          LET e == emitted[k]
              at == TokenStart(e)
              text == Slice(at, e.upto)
          IN  /\ e.from = IF k = 1 THEN 1 ELSE emitted[k - 1].upto
              /\ e.from <= e.upto
              /\ e.upto <= Len(chars) + 1
              /\ e.kind = "Ok" =>
                   CASE e.value.kind = "Integer" ->
                            \E first \in {IF text[1] = "-" THEN 2 ELSE 1} :
                              /\ Len(text) >= first
                              /\ \A j \in first..Len(text) : text[j] \in DecimalDigits
                              /\ e.value.value =
                                    IF first = 2 THEN -Decimal(at + 1, e.upto)
                                    ELSE Decimal(at, e.upto)
                     [] e.value.kind = "QuotedString" ->
                            /\ text[1] = Quote
                            /\ text[Len(text)] = Quote
                            /\ Len(text) >= 2
                     [] OTHER -> text = Spelling(e.value)
              /\ (e.kind = "Err" /\ e.value[1] = "Unrecognized character ") =>
                   text = <<e.value[2]>>

\* a-1 was lexed to the end: the identifier, the integer that begins at the
\* character that ended the identifier, then None, with a rewind pending
\* after each of the first two calls.
RewindNeverDoubledWitness ==
    /\ chars = <<"a", "-", "1">>
    /\ Len(emitted) >= 3
    /\ emitted[1].value = Token("Ident", <<"a">>)
    /\ emitted[2].value = Token("Integer", -1)
    /\ emitted[2].from = 2
    /\ emitted[3].kind = "None"
    /\ ~memory.panicked

\* C31. Monotone progress: in either runtime, when two consecutive ticks of a
\* sequence or selector both return Running, the resumption index stored
\* after the second is not below the one stored after the first, which is the
\* one the second tick found.
MonotoneProgress ==
    \A rt \in Runtimes : \A s \in Slots : \A v \in WithMemory(s) :
        (Seen(rt, s)[v].run # None /\ Seen(rt, s)[v].prevRun # None)
            => /\ Seen(rt, s)[v].stored # None
               /\ Running(rt, s, v) # None
               /\ Running(rt, s, v)[1] >= Seen(rt, s)[v].stored[1]
               /\ Seen(rt, s)[v].run[1] >= Seen(rt, s)[v].prevRun[1]

\* In each runtime a sequence or selector returned Running in two consecutive
\* ticks and its stored index went up from the first to the second.
MonotoneProgressWitness ==
    \A rt \in Runtimes : \E s \in Slots : \E v \in WithMemory(s) :
        /\ Seen(rt, s)[v].run # None
        /\ Seen(rt, s)[v].prevRun # None
        /\ Seen(rt, s)[v].stored # None
        /\ Running(rt, s, v) # None
        /\ Running(rt, s, v)[1] > Seen(rt, s)[v].stored[1]

\* The driver has left its loop: the latest visit returned Success or Failure.
Completed ==
    /\ optLog[1] # <<>>
    /\ Last(optLog[1]).res \in {"Success", "Failure"}

\* The latest visit visited no node twice and returned the result of the root.
SingleVisits ==
    /\ \A j, k \in DOMAIN optLog[1] : optLog[1][j].id = optLog[1][k].id => j = k
    /\ optLog[1] # <<>> => Last(optLog[1]).id = 1

\* C32. Tick-to-completion terminates: for a tree of sequence, selector and
\* inverter nodes whose leaves each return Running at most MaxRunning times
\* in a row, the loop that visits the tree as long as the visit returns
\* Running gets Success or Failure in the end, after no more visits than
\* MaxRunning for each leaf and one; and every visit visits each leaf, and
\* each node, at most once and returns the result of the root.
TickToCompletion == [](SingleVisits /\ (Completed \/ Looping)) /\ <>Completed

\* The loop ended after a visit that returned Running: the root was visited
\* again and returned Success or Failure.
TickToCompletionWitness ==
    /\ last.i > 1
    /\ Completed
    /\ Tab(1)[1].kind \in {"Sequence", "Selector"}
    /\ optSeen[1][1].prevRun # None

====
